---- MODULE Spec2Model ----
(***************************************************************************)
(* A model of the go-digikey client: the dual-window rate limiter, the     *)
(* OAuth2 token manager, the response cache and the request pipeline       *)
(* (doWithRetry / doOnce) that composes them.                              *)
(*                                                                         *)
(* Time is counted in whole seconds since the construction of the client.  *)
(***************************************************************************)
EXTENDS Integers, Sequences, FiniteSets, TLC

(***************************************************************************)
(* Bounds of the model.                                                    *)
(***************************************************************************)
\* Largest minute / day limit a limiter is constructed with.
MaxLimit == 2
\* Number of times the clock advances in one behaviour.
MaxTicks == 2

\* Largest MaxRetries a client is configured with.
MaxRetriesBound == 2
\* Number of callers that use one client concurrently.
NumCallers == 2
\* Number of top-level calls a caller of the caching client makes.
MaxCalls == 2
\* Number of times the clock advances while callers use the client.
ClientTicks == 1

(***************************************************************************)
(* Program constants.                                                      *)
(***************************************************************************)
\* time.Minute, in seconds.
MinuteDur == 60
\* 24 * time.Hour, in seconds.
DayDur == 86400

\* tokenExpiryBuffer, in seconds.
TokenExpiryBuffer == 60
\* The default limits of NewRateLimiter.
DefaultMinuteLimit == 120
DefaultDayLimit == 1000
\* DefaultCacheConfig: SearchTTL and DetailsTTL, in seconds.
SearchTTL == 300
DetailsTTL == 600
\* The zero time.Time of an unset or invalidated token expiry.
ZeroTime == 0
\* The empty access token.
NoToken == 0

\* The amounts by which the clock advances in one step.
TickDeltas == {1, MinuteDur, DayDur}
\* The Retry-After values handed to UpdateFromResponse.
RetryAfterVals == {-1, 0, 1, 120}
\* The saturation point of the count of Allow() calls on a pristine limiter.
AllowCap == MaxLimit + 2

Callers == 1..NumCallers
\* The MaxRetries values a RetryConfig may carry (WithRetryConfig takes any int).
RetryChoices == (-1)..MaxRetriesBound
\* The operations of the client and the cache keys they use.
Kinds == {"details", "search", "nocache"}
Keys == {"details", "search"}

VARIABLES
    \* RateLimiter fields
    minuteLimit, dayLimit, minuteCount, minuteResetTime, dayCount, dayResetTime,
    \* the clock (time.Now) and the number of times it advanced
    now, ticks,
    \* history of the limiter: the last operation and its result
    lastOp,
    \* no window reset and no UpdateFromResponse(s > 0) happened since construction
    pristine,
    \* number of Allow() calls made so far (saturating at AllowCap)
    nAllow,
    \* now + s of the latest UpdateFromResponse(s > 0), and the largest such value
    lastDeadline, maxDeadline,
    \* successful Allow() calls since the last reset of the minute / day window
    admMinute, admDay,
    \* client configuration: RetryConfig.MaxRetries, CacheConfig.Enabled
    maxRetries, cacheEnabled,
    \* the environment: the callers that run, the answers the API server and
    \* the token endpoint may give
    callers, dataResponses, tokenResponses,
    \* the calls each caller makes, the amounts by which and the number of
    \* times the clock advances, the operations the callers invoke
    callBudget, tickDeltas, tickBudget, methods,
    \* tokenManager fields: the cached token, its expiry, the holder of mu
    \* (0: nobody)
    accessToken, tokenExpiry, muHolder,
    \* number of token exchanges issued so far; exchanges issued, and
    \* exchanges that failed or brought an unusable token, since the cached
    \* credential last became invalid
    exchanges, epochExchanges, epochUnusable,
    \* the number of exchanges issued when invalidate() last ran: the tokens
    \* up to that one are the ones an invalidate() has discarded
    lastInvalidated,
    \* the cache: key -> entry
    cache,
    \* per caller: where it is in its call, the operation and its cache key,
    \* the loop index and the isRetryAfter401 flag of doWithRetry, the token
    \* of the request, the call's returned error and value, the calls made
    pc, kind, attempt, retry401, tok, result, value, calls,
    \* per caller: the state of the context it passed ("no": not done,
    \* "canceled", "deadline")
    cancelled,
    \* per caller, about the current top-level call: data requests sent, the
    \* backoff indices slept, whether the attempt passed Allow(), how the
    \* last attempt ended, what all attempts of this run of doWithRetry had
    \* in common, data requests sent by this run of doWithRetry, the step of
    \* getToken / refreshToken that produced the token of the request
    nSent, sleeps, permit, lastEvent, pure, nSentLoop, tokenVia,
    \* per caller: how the last data request of the call was answered
    lastData,
    \* per caller: whether the cache held an unexpired, deserializable entry
    \* under the key of the call when the call started
    hadEntry,
    \* history of the cache where it is used directly: the Get that no Set,
    \* Delete or Clear followed, with its result, and per key the latest Set
    \* that no Delete or Clear followed
    lastGet, lastSet,
    \* a function of the package applied on its own: its arguments and what
    \* it returned
    fnArgs, fnResult,
    \* the locks: per goroutine (0: the caller of SetLocale) the locks it
    \* holds, each with its mode; the setter's position
    held, setterPc,
    \* Client.locale, and per caller the locale read for the key of the cache
    \* lookup, for the headers of the latest request, and for the key of the
    \* cache store
    locale, keyLoc, hdrLoc, storeLoc,
    \* the cache by locale of the key: the locale of the request headers
    \* that produced the response stored there, or the mark of a response
    \* that no request produced
    lcache,
    \* per caller: the number of doWithRetry invocations below the one that
    \* do() made
    depth

limVars == <<minuteLimit, dayLimit, minuteCount, minuteResetTime, dayCount, dayResetTime>>
clockVars == <<now, ticks>>
limGhost == <<lastOp, pristine, nAllow, lastDeadline, maxDeadline, admMinute, admDay>>
cfgVars == <<maxRetries, cacheEnabled, callers, dataResponses, tokenResponses,
            callBudget, tickDeltas, tickBudget, methods>>
tmVars == <<accessToken, tokenExpiry, muHolder>>
tmGhost == <<exchanges, epochExchanges, epochUnusable, lastInvalidated>>
callVars == <<pc, kind, attempt, retry401, tok, result, value, calls, cancelled>>
callGhost == <<nSent, sleeps, permit, lastEvent, pure, nSentLoop, tokenVia, lastData, hadEntry>>
memGhost == <<lastGet, lastSet>>
fnVars == <<fnArgs, fnResult>>
localeVars == <<locale, keyLoc, hdrLoc, storeLoc, lcache>>
lockVars == <<held, setterPc, localeVars, depth>>
clientVars == <<cfgVars, tmVars, tmGhost, cache, memGhost, fnVars, lockVars, callVars, callGhost>>
vars == <<limVars, clockVars, limGhost, clientVars>>

(***************************************************************************)
(* Errors (errors.go).  Every error value has the same shape so that any   *)
(* two of them can be compared.                                            *)
(***************************************************************************)
Nil == [kind |-> "nil", status |-> 0, window |-> "", limit |-> 0, remaining |-> 0, resetAt |-> 0]

RateLimitError(lim, rem, at, w) ==
    [kind |-> "RateLimitError", status |-> 0, window |-> w, limit |-> lim,
     remaining |-> rem, resetAt |-> at]

APIError(code) ==
    [kind |-> "APIError", status |-> code, window |-> "", limit |-> 0, remaining |-> 0, resetAt |-> 0]

AuthError ==
    [kind |-> "AuthError", status |-> 0, window |-> "", limit |-> 0, remaining |-> 0, resetAt |-> 0]

\* An error that is none of the package's types (fmt.Errorf, a transport
\* error, a context error); k names it.
OtherError(k) ==
    [kind |-> k, status |-> 0, window |-> "", limit |-> 0, remaining |-> 0, resetAt |-> 0]

\* The error of a context that is done: ctx.Err().
CtxError(k) ==
    OtherError(IF k = "canceled" THEN "context canceled" ELSE "context deadline exceeded")

\* APIError.Unwrap: the sentinel a status code maps to.
APIErrorUnwrap(code) ==
    CASE code = 401 -> "ErrUnauthorized"
      [] code = 403 -> "ErrForbidden"
      [] code = 404 -> "ErrNotFound"
      [] code = 429 -> "ErrRateLimitExceeded"
      [] code = 400 -> "ErrInvalidRequest"
      [] OTHER -> IF code >= 500 THEN "ErrServerError" ELSE "none"

\* The sentinel errors.Is finds at the end of e's Unwrap chain.
Unwrap(e) ==
    CASE e.kind = "APIError" -> APIErrorUnwrap(e.status)
      [] e.kind = "AuthError" -> "ErrUnauthorized"
      [] e.kind = "RateLimitError" -> "ErrRateLimitExceeded"
      [] OTHER -> "none"

ErrorsIs(e, sentinel) == Unwrap(e) = sentinel

(***************************************************************************)
(* RateLimiter                                                             *)
(***************************************************************************)
\* now.After(resetTime)
WindowPassed(resetTime) == now > resetTime

\* The window as Allow() sees it after its lazy reset.
MinuteCountNow == IF WindowPassed(minuteResetTime) THEN 0 ELSE minuteCount
MinuteResetNow == IF WindowPassed(minuteResetTime) THEN now + MinuteDur ELSE minuteResetTime
DayCountNow == IF WindowPassed(dayResetTime) THEN 0 ELSE dayCount
DayResetNow == IF WindowPassed(dayResetTime) THEN now + DayDur ELSE dayResetTime

\* Allow() with the minute check off by one.
AllowResult_OffByOne ==
    IF MinuteCountNow > minuteLimit
    THEN RateLimitError(minuteLimit, 0, MinuteResetNow, "minute")
    ELSE IF DayCountNow >= dayLimit
         THEN RateLimitError(dayLimit, 0, DayResetNow, "day")
         ELSE Nil

\* Allow() with the day window checked first.
AllowResult_DayFirst ==
    IF DayCountNow >= dayLimit
    THEN RateLimitError(dayLimit, 0, DayResetNow, "day")
    ELSE IF MinuteCountNow >= minuteLimit
         THEN RateLimitError(minuteLimit, 0, MinuteResetNow, "minute")
         ELSE Nil

\* The value Allow() returns at this instant.  ResetAt is the reset time
\* formatted to the second (RFC3339).
AllowResult ==
    IF MinuteCountNow >= minuteLimit
    THEN RateLimitError(minuteLimit, 0, MinuteResetNow, "minute")
    ELSE IF DayCountNow >= dayLimit
         THEN RateLimitError(dayLimit, 0, DayResetNow, "day")
         ELSE Nil

\* An Allow that admits without counting in the minute window.
AllowMinuteCount_NoCount == MinuteCountNow

\* The counters Allow() leaves behind.
AllowMinuteCount == IF AllowResult = Nil THEN MinuteCountNow + 1 ELSE MinuteCountNow
AllowDayCount == IF AllowResult = Nil THEN DayCountNow + 1 ELSE DayCountNow

\* A Stats that reports the stored counters without the lazy-reset view.
StatsResult_Stored ==
    [MinuteUsed |-> minuteCount, MinuteRemaining |-> minuteLimit - minuteCount - 1,
     MinuteResetAt |-> minuteResetTime,
     DayUsed |-> dayCount, DayRemaining |-> dayLimit - dayCount,
     DayResetAt |-> dayResetTime]

\* RateLimiter.Stats: the snapshot it returns; the stored counters stay.
StatsResult ==
    [MinuteUsed |-> MinuteCountNow, MinuteRemaining |-> minuteLimit - MinuteCountNow,
     MinuteResetAt |-> minuteResetTime,
     DayUsed |-> DayCountNow, DayRemaining |-> dayLimit - DayCountNow,
     DayResetAt |-> dayResetTime]

NoStats ==
    [MinuteUsed |-> 0, MinuteRemaining |-> 0, MinuteResetAt |-> 0,
     DayUsed |-> 0, DayRemaining |-> 0, DayResetAt |-> 0]

\* A WaitTime that takes the minute window for exhausted only above its limit.
MinuteWait_Above ==
    IF MinuteCountNow > minuteLimit /\ now < minuteResetTime THEN minuteResetTime - now ELSE 0
\* A WaitTime that counts the day window's time until reset although the
\* window has headroom.
DayWait_Always == IF now < dayResetTime THEN dayResetTime - now ELSE 0

\* The two terms of WaitTime: a window's time until reset when it is
\* exhausted and now.Before(resetTime), else 0.
MinuteWait ==
    IF MinuteCountNow >= minuteLimit /\ now < minuteResetTime THEN minuteResetTime - now ELSE 0
DayWait ==
    IF DayCountNow >= dayLimit /\ now < dayResetTime THEN dayResetTime - now ELSE 0

\* RateLimiter.WaitTime, in seconds.
WaitTimeResult ==
    IF MinuteCountNow < minuteLimit /\ DayCountNow < dayLimit
    THEN 0
    ELSE IF DayWait > MinuteWait THEN DayWait ELSE MinuteWait

OpRecord(op, arg, err, stats, wait) ==
    [op |-> op, arg |-> arg, err |-> err, stats |-> stats, wait |-> wait, at |-> now]

\* RateLimiter.Allow, with the history it leaves.
Allow ==
    /\ minuteCount' = AllowMinuteCount
    /\ dayCount' = AllowDayCount
    /\ minuteResetTime' = MinuteResetNow
    /\ dayResetTime' = DayResetNow
    /\ UNCHANGED <<minuteLimit, dayLimit>>
    /\ lastOp' = OpRecord("Allow", 0, AllowResult, NoStats, 0)
    /\ pristine' = (pristine /\ ~WindowPassed(minuteResetTime) /\ ~WindowPassed(dayResetTime))
    /\ nAllow' = IF nAllow < AllowCap THEN nAllow + 1 ELSE nAllow
    /\ admMinute' = (IF WindowPassed(minuteResetTime) THEN 0 ELSE admMinute)
                     + (IF AllowResult = Nil THEN 1 ELSE 0)
    /\ admDay' = (IF WindowPassed(dayResetTime) THEN 0 ELSE admDay)
                  + (IF AllowResult = Nil THEN 1 ELSE 0)
    /\ UNCHANGED <<lastDeadline, maxDeadline>>

\* UpdateFromResponse that treats 0 as a deadline.
UpdateMinuteCount_ZeroForces(s) == IF s < 0 THEN minuteCount ELSE minuteLimit
\* UpdateFromResponse that forgets to move the reset time.
UpdateMinuteReset_Keep(s) == minuteResetTime

\* The minute window UpdateFromResponse(s) leaves behind.
UpdateMinuteCount(s) == IF s <= 0 THEN minuteCount ELSE minuteLimit
UpdateMinuteReset(s) == IF s <= 0 THEN minuteResetTime ELSE now + s

\* RateLimiter.UpdateFromResponse(s), with the history it leaves.
UpdateFromResponse(s) ==
    /\ minuteCount' = UpdateMinuteCount(s)
    /\ minuteResetTime' = UpdateMinuteReset(s)
    /\ UNCHANGED <<minuteLimit, dayLimit, dayCount, dayResetTime>>
    /\ lastOp' = OpRecord("UpdateFromResponse", s, Nil, NoStats, 0)
    /\ pristine' = (pristine /\ s <= 0)
    /\ lastDeadline' = IF s > 0 THEN now + s ELSE lastDeadline
    /\ maxDeadline' = IF s > 0 /\ now + s > maxDeadline THEN now + s ELSE maxDeadline
    /\ UNCHANGED <<nAllow, admMinute, admDay>>

\* A Stats that applies the lazy reset to the stored counters.
Stats_Resetting ==
    /\ minuteCount' = MinuteCountNow
    /\ dayCount' = DayCountNow
    /\ minuteResetTime' = MinuteResetNow
    /\ dayResetTime' = DayResetNow
    /\ UNCHANGED <<minuteLimit, dayLimit>>
    /\ lastOp' = OpRecord("Stats", 0, Nil, StatsResult, 0)
    /\ UNCHANGED <<pristine, nAllow, lastDeadline, maxDeadline, admMinute, admDay>>

\* RateLimiter.Stats, with the history it leaves.
Stats ==
    /\ UNCHANGED limVars
    /\ lastOp' = OpRecord("Stats", 0, Nil, StatsResult, 0)
    /\ UNCHANGED <<pristine, nAllow, lastDeadline, maxDeadline, admMinute, admDay>>

\* RateLimiter.WaitTime, with the history it leaves.
WaitTime ==
    /\ UNCHANGED limVars
    /\ lastOp' = OpRecord("WaitTime", 0, Nil, NoStats, WaitTimeResult)
    /\ UNCHANGED <<pristine, nAllow, lastDeadline, maxDeadline, admMinute, admDay>>

(***************************************************************************)
(* RetryPolicy (retry.go).                                                 *)
(***************************************************************************)
\* A shouldRetry that retries every server error.
ShouldRetry_All5xx(transient, status) == transient \/ status = 429 \/ status >= 500

\* shouldRetry(err, statusCode); transient says whether err is a transport
\* error that signals a timeout or a temporary condition.
ShouldRetry(transient, status) == transient \/ status \in {429, 500, 502, 503, 504}

\* Whether a transport error of type t signals a timeout: a timeout of the
\* connection, or the deadline of the context.
Transient(t) == t \in {"timeout", "temporary", "deadline"}

\* parseRetryAfter: the integer a Retry-After header carries, 0 when the
\* header is missing or not an integer.  The headers that carry an integer
\* are listed with their values.
ParseRetryAfter(h) ==
    CASE h = "-1" -> -1
      [] h = "0" -> 0
      [] h = "1" -> 1
      [] h = "2" -> 2
      [] h = "5" -> 5
      [] h = "10" -> 10
      [] h = "30" -> 30
      [] h = "60" -> 60
      [] h = "120" -> 120
      [] h = "300" -> 300
      [] h = "3600" -> 3600
      [] OTHER -> 0

(***************************************************************************)
(* The answers of the network.                                             *)
(***************************************************************************)
\* An answer to a data request: an HTTP response (its status, Retry-After
\* header and body) or a transport error.
Resp(t, code, ra, body) == [t |-> t, code |-> code, ra |-> ra, body |-> body]

AllDataResponses ==
    { Resp("http", 200, "", "json"), Resp("http", 200, "", "malformed"),
      Resp("http", 200, "", "empty"),
      Resp("http", 401, "", "json"), Resp("http", 404, "", "json"),
      Resp("http", 403, "", "json"), Resp("http", 501, "", "json"),
      Resp("http", 503, "", "json"),
      Resp("http", 429, "", "json"), Resp("http", 429, "120", "json"),
      Resp("http", 429, "invalid", "json"),
      Resp("timeout", 0, "", ""), Resp("refused", 0, "", ""),
      Resp("readerr", 200, "", "") }

\* An answer of the token endpoint: 200 with a token and expires_in, a non-200
\* status with or without a structured error body, or a transport error.
TokResp(t, expiresIn) == [t |-> t, expiresIn |-> expiresIn]

AllTokenResponses ==
    { TokResp("ok", 3600), TokResp("ok", 30), TokResp("autherr", 0), TokResp("apierr", 0),
      TokResp("timeout", 0), TokResp("refused", 0), TokResp("malformed", 0) }

(***************************************************************************)
(* tokenManager (auth.go)                                                  *)
(***************************************************************************)
\* token != "" && time.Now().Before(expiry.Add(-tokenExpiryBuffer))
TokenValid == accessToken # NoToken /\ now < tokenExpiry - TokenExpiryBuffer

\* The check of getToken on the token it read under the read lock.
GetTokenCached == TokenValid

\* A refreshToken that skips the re-check after acquiring the lock.
RefreshRecheck_Skip == FALSE

\* The re-check of refreshToken after acquiring the lock.
RefreshRecheck == TokenValid

\* An invalidate that leaves the token in place.
InvalidatedToken_Keep == accessToken

\* tokenManager.invalidate: what it stores as token and as expiry.
InvalidatedToken == NoToken
InvalidatedExpiry == ZeroTime

\* An invalidate that does nothing.
Invalidated_Noop == [token |-> accessToken, expiry |-> tokenExpiry]

\* The credential invalidate leaves behind.
Invalidated == [token |-> InvalidatedToken, expiry |-> InvalidatedExpiry]

\* The error refreshToken returns for a failed exchange.
TokenError(r) ==
    CASE r.t = "autherr" -> AuthError
      [] r.t = "apierr" -> APIError(500)
      [] r.t = "apierr401" -> APIError(401)
      [] r.t = "timeout" -> OtherError("token request failed: timeout")
      [] r.t = "refused" -> OtherError("token request failed: refused")
      [] r.t = "canceled" -> OtherError("token request failed: context canceled")
      [] r.t = "deadline" -> OtherError("token request failed: context deadline exceeded")
      [] OTHER -> OtherError("failed to parse token response")

(***************************************************************************)
(* Client.doOnce: what one attempt returns, (statusCode, shouldRetry, err) *)
(***************************************************************************)
Outcome(status, retry, err) == [status |-> status, retry |-> retry, err |-> err]

\* A doOnce whose rate-limit failure is marked retryable.
DoOnceAllowFail_Retryable(e) == Outcome(0, TRUE, e)

\* Allow() failed.
DoOnceAllowFail(e) == Outcome(0, FALSE, e)

\* A doOnce that reports the status of the token endpoint as the status of
\* the attempt.
DoOnceTokenFail_Status(r) ==
    Outcome(IF r.t = "autherr" \/ r.t = "apierr401" THEN 401 ELSE 0,
            ShouldRetry(Transient(r.t), 0), TokenError(r))

\* getToken failed.
DoOnceTokenFail(r) == Outcome(0, ShouldRetry(Transient(r.t), 0), TokenError(r))

\* The error doOnce returns when httpClient.Do fails with a transport error
\* of type t.
RequestFailed(t) ==
    CASE t = "timeout" -> OtherError("request failed: timeout")
      [] t = "refused" -> OtherError("request failed: refused")
      [] t = "canceled" -> OtherError("request failed: context canceled")
      [] OTHER -> OtherError("request failed: context deadline exceeded")

\* A doOnce that marks every non-2xx status retryable.
DoOnceResponse_RetryAll(r) ==
    CASE r.t \in {"timeout", "refused", "canceled", "deadline"} ->
            Outcome(0, ShouldRetry(Transient(r.t), 0), RequestFailed(r.t))
      [] r.t = "readerr" -> Outcome(r.code, FALSE, OtherError("failed to read response"))
      [] r.code = 429 -> Outcome(429, TRUE, APIError(429))
      [] r.code = 401 -> Outcome(401, FALSE, APIError(401))
      [] r.code < 200 \/ r.code >= 300 -> Outcome(r.code, TRUE, APIError(r.code))
      [] r.body = "malformed" -> Outcome(r.code, FALSE, OtherError("failed to parse response"))
      [] OTHER -> Outcome(r.code, FALSE, Nil)

\* A doOnce that marks a parse failure retryable.
DoOnceResponse_RetryParse(r) ==
    CASE r.t \in {"timeout", "refused", "canceled", "deadline"} ->
            Outcome(0, ShouldRetry(Transient(r.t), 0), RequestFailed(r.t))
      [] r.t = "readerr" -> Outcome(r.code, FALSE, OtherError("failed to read response"))
      [] r.code = 429 -> Outcome(429, TRUE, APIError(429))
      [] r.code = 401 -> Outcome(401, FALSE, APIError(401))
      [] r.code < 200 \/ r.code >= 300 -> Outcome(r.code, ShouldRetry(FALSE, r.code), APIError(r.code))
      [] r.body = "malformed" -> Outcome(r.code, TRUE, OtherError("failed to parse response"))
      [] OTHER -> Outcome(r.code, FALSE, Nil)

\* The request was sent and r came back.
DoOnceResponse(r) ==
    CASE r.t \in {"timeout", "refused", "canceled", "deadline"} ->
            Outcome(0, ShouldRetry(Transient(r.t), 0), RequestFailed(r.t))
      [] r.t = "readerr" -> Outcome(r.code, FALSE, OtherError("failed to read response"))
      [] r.code = 429 -> Outcome(429, TRUE, APIError(429))
      [] r.code = 401 -> Outcome(401, FALSE, APIError(401))
      [] r.code < 200 \/ r.code >= 300 -> Outcome(r.code, ShouldRetry(FALSE, r.code), APIError(r.code))
      [] r.body = "malformed" -> Outcome(r.code, FALSE, OtherError("failed to parse response"))
      [] OTHER -> Outcome(r.code, FALSE, Nil)

(***************************************************************************)
(* Client.doWithRetry: what the loop does with the outcome of an attempt.  *)
(***************************************************************************)
MaxAttempts == maxRetries + 1

\* A loop that counts the 401 restart as a used attempt.
RestartAttempt_Consumes(att) == att + 1

\* The loop index the call restarts from after a 401.
RestartAttempt(att) == 0

\* A loop that retries once more than configured.
LoopDecision_OneMore(out, att, is401) ==
    IF out.err = Nil THEN "return_nil"
    ELSE IF out.status = 401 /\ ~is401 THEN "restart"
    ELSE IF ~out.retry THEN "return_err"
    ELSE IF att >= MaxAttempts THEN "return_err"
    ELSE "continue"

\* A loop that restarts on every 401.
LoopDecision_AlwaysRestart(out, att, is401) ==
    IF out.err = Nil THEN "return_nil"
    ELSE IF out.status = 401 THEN "restart"
    ELSE IF ~out.retry THEN "return_err"
    ELSE IF att >= MaxAttempts - 1 THEN "return_err"
    ELSE "continue"

LoopDecision(out, att, is401) ==
    IF out.err = Nil THEN "return_nil"
    ELSE IF out.status = 401 /\ ~is401 THEN "restart"
    ELSE IF ~out.retry THEN "return_err"
    ELSE IF att >= MaxAttempts - 1 THEN "return_err"
    ELSE "continue"

(***************************************************************************)
(* The cache (MemoryCache) and the cache keys.                             *)
(***************************************************************************)
NoValue == [by |-> 0, n |-> 0]
NoEntry == [present |-> FALSE, good |-> FALSE, val |-> NoValue, expiresAt |-> 0]
Entry(v, good, at) == [present |-> TRUE, good |-> good, val |-> v, expiresAt |-> at]

KeyOf(k) == IF k = "search" THEN "search" ELSE "details"
\* A client that stores every result for the search TTL.
TTLOf_Search(k) == SearchTTL

\* The TTL of the entry operation k stores.
TTLOf(k) == IF k = "search" THEN SearchTTL ELSE DetailsTTL

\* A Get that still returns an entry at the instant it expires.
CacheHit_Inclusive(key) == cache[key].present /\ now <= cache[key].expiresAt

\* MemoryCache.Get: a hit when the entry exists and has not expired.
CacheHit(key) == cache[key].present /\ now < cache[key].expiresAt
\* MemoryCache.Get removes the entry it finds expired.
CacheAfterGet(ch, key) ==
    IF ch[key].present /\ ~(now < ch[key].expiresAt) THEN [ch EXCEPT ![key] = NoEntry] ELSE ch
\* MemoryCache.Set
CacheSet(ch, key, v, ttl) == [ch EXCEPT ![key] = Entry(v, TRUE, now + ttl)]

\* The periodic sweep: every expired entry is removed.
CacheAfterSweep(ch) ==
    [k \in Keys |-> IF ch[k].present /\ ~(now < ch[k].expiresAt) THEN NoEntry ELSE ch[k]]

\* What a Get returned: the key, whether it hit, the value, the time.
GetRecord(key, ok, v) == [key |-> key, ok |-> ok, val |-> v, at |-> now]
NoGet == [key |-> "", ok |-> FALSE, val |-> NoValue, at |-> 0]

\* MemoryCache.Get(key), with the history it leaves.
MemGet(key) ==
    /\ lastGet' = GetRecord(key, CacheHit(key), IF CacheHit(key) THEN cache[key].val ELSE NoValue)
    /\ cache' = CacheAfterGet(cache, key)
    /\ UNCHANGED lastSet

\* MemoryCache.Set(key, v, ttl), with the history it leaves.
MemSet(key, v, ttl) ==
    /\ cache' = CacheSet(cache, key, v, ttl)
    /\ lastSet' = [lastSet EXCEPT ![key] = Entry(v, TRUE, now + ttl)]
    /\ lastGet' = NoGet

\* MemoryCache.Delete(key)
MemDelete(key) ==
    /\ cache' = [cache EXCEPT ![key] = NoEntry]
    /\ lastSet' = [lastSet EXCEPT ![key] = NoEntry]
    /\ lastGet' = NoGet

\* MemoryCache.Clear()
MemClear ==
    /\ cache' = [k \in Keys |-> NoEntry]
    /\ lastSet' = [k \in Keys |-> NoEntry]
    /\ lastGet' = NoGet

\* One run of the background sweep.
MemSweep ==
    /\ cache' = CacheAfterSweep(cache)
    /\ UNCHANGED <<lastGet, lastSet>>

\* A client that goes to the network although the cache holds the result.
CacheServes_Never(k) == FALSE

\* A client whose ProductDetailsNoCache looks into the cache as well.
CacheServes_NoCacheToo(k) == cacheEnabled /\ CacheHit(KeyOf(k)) /\ cache[KeyOf(k)].good

\* KeywordSearch / ProductDetails return the cached result: caching is
\* enabled, the key hits and the entry deserializes.
CacheServes(k) ==
    cacheEnabled /\ k # "nocache" /\ CacheHit(KeyOf(k)) /\ cache[KeyOf(k)].good

\* The cache after the lookup of operation k.
CacheAfterLookup(k) ==
    IF cacheEnabled /\ k # "nocache" THEN CacheAfterGet(cache, KeyOf(k)) ELSE cache

\* The cache after operation k returned v without error.
CacheAfterStore(ch, k, v) == IF cacheEnabled THEN CacheSet(ch, KeyOf(k), v, TTLOf(k)) ELSE ch

(***************************************************************************)
(* The client: top-level calls (KeywordSearch, ProductDetails,             *)
(* ProductDetailsNoCache) through do / doWithRetry / doOnce.               *)
(***************************************************************************)
\* What doWithRetry does once an attempt of caller c returned out (val is
\* the parsed result of a successful attempt): return, restart after a 401,
\* or go to the backoff sleep of the next attempt.  ch is the cache as the
\* attempt leaves it.
AfterDoOnce(c, out, val, ch, tag) ==
    LET d == LoopDecision(out, attempt[c], retry401[c]) IN
    /\ lastEvent' = [lastEvent EXCEPT ![c] = tag]
    /\ lastData' = [lastData EXCEPT ![c] = IF tag \in {"allowfail", "tokenfail"} THEN @ ELSE tag]
    /\ pure' = [pure EXCEPT ![c] = IF @ = "" \/ @ = tag THEN tag ELSE "mixed"]
    /\ pc' = [pc EXCEPT ![c] = CASE d = "restart" -> "inval"
                                 [] d = "continue" -> "sleep"
                                 [] d = "return_nil" /\ cacheEnabled -> "store"
                                 [] OTHER -> "done"]
    /\ attempt' = [attempt EXCEPT ![c] = IF d = "continue" THEN @ + 1 ELSE @]
    /\ result' = [result EXCEPT ![c] = IF d = "restart" \/ d = "continue" THEN @ ELSE out.err]
    /\ value' = [value EXCEPT ![c] = IF d = "return_nil" THEN val ELSE @]
    /\ cache' = ch
    /\ permit' = [permit EXCEPT ![c] = FALSE]
    /\ tokenVia' = [tokenVia EXCEPT ![c] = ""]
    /\ tok' = [tok EXCEPT ![c] = IF d = "restart" THEN @ ELSE NoToken]

\* A caller starts KeywordSearch, ProductDetails or ProductDetailsNoCache
\* with arguments that pass the method's checks (keywords or a product
\* number are given): the cache lookup, and the entry into the retry loop.
\* With no attempt to make, do() returns nil at once and the call goes on
\* to the store, which is a later step under a lock of its own.
StartCall(c) ==
    /\ c \in callers
    /\ pc[c] \in {"idle", "done"}
    /\ calls[c] < callBudget
    /\ \E k \in methods :
        /\ kind' = [kind EXCEPT ![c] = k]
        /\ IF CacheServes(k)
           THEN /\ pc' = [pc EXCEPT ![c] = "done"]
                /\ value' = [value EXCEPT ![c] = cache[KeyOf(k)].val]
                /\ cache' = CacheAfterLookup(k)
           ELSE IF MaxAttempts <= 0
           THEN \* the loop body never runs and lastErr is still nil
                /\ pc' = [pc EXCEPT ![c] = IF cacheEnabled THEN "store" ELSE "done"]
                /\ value' = [value EXCEPT ![c] = NoValue]
                /\ cache' = CacheAfterLookup(k)
           ELSE /\ pc' = [pc EXCEPT ![c] = "allow"]
                /\ value' = [value EXCEPT ![c] = NoValue]
                /\ cache' = CacheAfterLookup(k)
    /\ result' = [result EXCEPT ![c] = Nil]
    /\ calls' = [calls EXCEPT ![c] = @ + 1]
    /\ attempt' = [attempt EXCEPT ![c] = 0]
    /\ retry401' = [retry401 EXCEPT ![c] = FALSE]
    /\ tok' = [tok EXCEPT ![c] = NoToken]
    /\ tokenVia' = [tokenVia EXCEPT ![c] = ""]
    /\ nSent' = [nSent EXCEPT ![c] = 0]
    /\ nSentLoop' = [nSentLoop EXCEPT ![c] = 0]
    /\ sleeps' = [sleeps EXCEPT ![c] = <<>>]
    /\ permit' = [permit EXCEPT ![c] = FALSE]
    /\ lastEvent' = [lastEvent EXCEPT ![c] = ""]
    /\ lastData' = [lastData EXCEPT ![c] = ""]
    /\ hadEntry' = [hadEntry EXCEPT ![c] = CacheHit(KeyOf(kind'[c])) /\ cache[KeyOf(kind'[c])].good]
    /\ pure' = [pure EXCEPT ![c] = ""]
    /\ UNCHANGED <<limVars, limGhost, clockVars, cfgVars, memGhost, fnVars, lockVars, tmVars, tmGhost, cancelled>>

\* sleep(ctx, d): nil when the duration has passed, the context's error when
\* the context is done first or was done already.
SleepResult(c) == IF cancelled[c] = "no" THEN Nil ELSE CtxError(cancelled[c])

\* A doWithRetry that ignores the error of sleep.
SleepAborts_Never(err) == FALSE

\* doWithRetry returns the error of sleep.
SleepAborts(err) == err # Nil

\* The backoff sleep before attempt[c] ends: sleep(ctx, calculateBackoff(attempt - 1)).
Sleep(c) ==
    /\ pc[c] = "sleep"
    /\ IF SleepAborts(SleepResult(c))
       THEN /\ pc' = [pc EXCEPT ![c] = "done"]
            /\ result' = [result EXCEPT ![c] = SleepResult(c)]
            /\ lastEvent' = [lastEvent EXCEPT ![c] = "sleepcancel"]
            /\ pure' = [pure EXCEPT ![c] = "mixed"]
            /\ UNCHANGED sleeps
       ELSE /\ pc' = [pc EXCEPT ![c] = "allow"]
            /\ sleeps' = [sleeps EXCEPT ![c] = Append(@, attempt[c] - 1)]
            /\ UNCHANGED <<result, lastEvent, pure>>
    /\ UNCHANGED <<limVars, limGhost, clockVars, cfgVars, memGhost, fnVars, lockVars, tmVars, tmGhost, cache,
                   kind, hadEntry, cancelled, attempt, retry401, tok, tokenVia, value, calls,
                   nSent, permit, lastData, nSentLoop>>

\* doOnce: rateLimiter.Allow().
DoAllow(c) ==
    /\ pc[c] = "allow"
    /\ Allow
    /\ IF AllowResult = Nil
       THEN /\ pc' = [pc EXCEPT ![c] = "token"]
            /\ permit' = [permit EXCEPT ![c] = TRUE]
            /\ UNCHANGED <<attempt, result, value, cache, lastEvent, lastData, pure, tok, tokenVia>>
       ELSE AfterDoOnce(c, DoOnceAllowFail(AllowResult), NoValue, cache, "allowfail")
    /\ UNCHANGED <<clockVars, cfgVars, memGhost, fnVars, lockVars, tmVars, tmGhost, kind, hadEntry, cancelled, retry401, calls,
                   nSent, sleeps, nSentLoop>>

\* What httpClient.Do can bring caller c: an answer of the server, or, once
\* the context of the request is done, the error of the context.
DataAnswers(c) ==
    IF cancelled[c] = "no" THEN dataResponses ELSE {Resp(cancelled[c], 0, "", "")}
TokenAnswers(c) ==
    IF cancelled[c] = "no" THEN tokenResponses ELSE {TokResp(cancelled[c], 0)}

\* The context of caller c is cancelled or its deadline passes.
Cancel(c) ==
    /\ c \in callers
    /\ pc[c] # "done"
    /\ cancelled[c] = "no"
    /\ \E k \in {"canceled", "deadline"} : cancelled' = [cancelled EXCEPT ![c] = k]
    /\ UNCHANGED <<limVars, limGhost, clockVars, cfgVars, memGhost, fnVars, lockVars, tmVars, tmGhost, cache, callGhost,
                   pc, kind, attempt, retry401, tok, result, value, calls>>

\* The request leaves with token t, which step via produced.
SendWith(c, t, via) ==
    /\ pc' = [pc EXCEPT ![c] = "send"]
    /\ tok' = [tok EXCEPT ![c] = t]
    /\ tokenVia' = [tokenVia EXCEPT ![c] = via]
    /\ nSent' = [nSent EXCEPT ![c] = @ + 1]
    /\ nSentLoop' = [nSentLoop EXCEPT ![c] = @ + 1]

\* getToken: read the cached token under the read lock; use it if valid.
GetToken(c) ==
    /\ pc[c] = "token"
    /\ muHolder = 0
    /\ IF GetTokenCached
       THEN SendWith(c, accessToken, "cached")
       ELSE /\ pc' = [pc EXCEPT ![c] = "lock"]
            /\ UNCHANGED <<tok, tokenVia, nSent, nSentLoop>>
    /\ UNCHANGED <<limVars, limGhost, clockVars, cfgVars, memGhost, fnVars, lockVars, tmVars, tmGhost, cache,
                   kind, hadEntry, cancelled, attempt, retry401, result, value, calls, sleeps, permit, lastEvent, lastData, pure>>

\* refreshToken: acquire mu, re-check the cached token, else issue the
\* token exchange (mu stays held while it is in flight).
RefreshLock(c) ==
    /\ pc[c] = "lock"
    /\ muHolder = 0
    /\ IF RefreshRecheck
       THEN /\ SendWith(c, accessToken, "recheck")
            /\ UNCHANGED <<muHolder, tmGhost>>
       ELSE /\ pc' = [pc EXCEPT ![c] = "exchange"]
            /\ muHolder' = c
            /\ exchanges' = exchanges + 1
            /\ epochExchanges' = epochExchanges + 1
            /\ UNCHANGED <<tok, tokenVia, nSent, nSentLoop, epochUnusable, lastInvalidated>>
    /\ UNCHANGED <<limVars, limGhost, clockVars, cfgVars, memGhost, fnVars, lockVars, accessToken, tokenExpiry, cache,
                   kind, hadEntry, cancelled, attempt, retry401, result, value, calls, sleeps, permit, lastEvent, lastData, pure>>

\* The token endpoint answers; refreshToken stores the token or returns the
\* error, and releases mu.
ExchangeDone(c) ==
    /\ pc[c] = "exchange"
    /\ muHolder' = 0
    /\ \E r \in TokenAnswers(c) :
        IF r.t = "ok"
        THEN /\ accessToken' = exchanges
             /\ tokenExpiry' = now + r.expiresIn
             /\ SendWith(c, exchanges, "exchange")
             /\ epochUnusable' =
                    IF now < now + r.expiresIn - TokenExpiryBuffer
                    THEN epochUnusable ELSE epochUnusable + 1
             /\ UNCHANGED <<attempt, result, value, cache, permit, lastEvent, lastData, pure>>
        ELSE /\ AfterDoOnce(c, DoOnceTokenFail(r), NoValue, cache, "tokenfail")
             /\ epochUnusable' = epochUnusable + 1
             /\ UNCHANGED <<accessToken, tokenExpiry, nSent, nSentLoop>>
    /\ UNCHANGED <<limVars, limGhost, clockVars, cfgVars, memGhost, fnVars, lockVars, exchanges, epochExchanges, lastInvalidated,
                   kind, hadEntry, cancelled, retry401, calls, sleeps>>

\* The tag under which a data response is remembered.
EventTag(r) ==
    CASE r.t = "readerr" -> "readerr"
      [] r.t # "http" -> "transport"
      [] r.code = 200 /\ r.body = "malformed" -> "malformed"
      [] r.code = 200 /\ r.body = "empty" -> "empty"
      [] r.code = 200 -> "200"
      [] r.code = 401 -> "401"
      [] r.code = 429 -> "429"
      [] r.code = 503 -> "503"
      [] OTHER -> "other"

\* What json.Unmarshal leaves in the result of caller c's call: the payload
\* of this call, or the zero value when the body is empty and nothing is
\* parsed.
ParsedResult(c, r) == IF r.body = "empty" THEN NoValue ELSE [by |-> c, n |-> calls[c]]

\* The answer to the data request arrives: the rest of doOnce (429 updates
\* the limiter) and the decision of doWithRetry.
DataResponse(c) ==
    /\ pc[c] = "send"
    /\ \E r \in DataAnswers(c) :
        /\ IF r.t = "http" /\ r.code = 429
           THEN UpdateFromResponse(ParseRetryAfter(r.ra))
           ELSE UNCHANGED <<limVars, limGhost>>
        /\ AfterDoOnce(c, DoOnceResponse(r), ParsedResult(c, r), cache, EventTag(r))
    /\ UNCHANGED <<clockVars, cfgVars, memGhost, fnVars, lockVars, tmVars, tmGhost, kind, hadEntry, cancelled, retry401, calls,
                   nSent, sleeps, nSentLoop>>

\* do() has returned nil with caching enabled: the product method stores
\* the result under the key of the call, with the TTL of its kind, and
\* returns.
StoreResult(c) ==
    /\ pc[c] = "store"
    /\ cache' = CacheAfterStore(cache, kind[c], value[c])
    /\ pc' = [pc EXCEPT ![c] = "done"]
    /\ UNCHANGED <<limVars, limGhost, clockVars, cfgVars, memGhost, fnVars, lockVars, tmVars, tmGhost,
                   kind, attempt, retry401, tok, result, value, calls, cancelled, callGhost>>

\* The 401 path of doWithRetry: tokenManager.invalidate(), then the call
\* starts over with isRetryAfter401 set.
Invalidate(c) ==
    /\ pc[c] = "inval"
    /\ muHolder = 0
    /\ accessToken' = Invalidated.token
    /\ tokenExpiry' = Invalidated.expiry
    /\ lastInvalidated' = exchanges
    /\ epochExchanges' = 0
    /\ epochUnusable' = 0
    /\ retry401' = [retry401 EXCEPT ![c] = TRUE]
    /\ attempt' = [attempt EXCEPT ![c] = RestartAttempt(@)]
    /\ pc' = [pc EXCEPT ![c] = "allow"]
    /\ nSentLoop' = [nSentLoop EXCEPT ![c] = 0]
    /\ pure' = [pure EXCEPT ![c] = ""]
    /\ tok' = [tok EXCEPT ![c] = NoToken]
    /\ UNCHANGED <<limVars, limGhost, clockVars, cfgVars, memGhost, fnVars, lockVars, muHolder, exchanges, cache,
                   kind, hadEntry, cancelled, tokenVia, result, value, calls, nSent, sleeps, permit, lastEvent, lastData>>

\* The goroutines: the callers, and 0 for the caller of SetLocale.
Procs == {0} \cup Callers
\* The locales a client is switched between, and the mark of a key under
\* which nothing is stored or of a locale not read yet.
Locales == {"US", "DE"}
NoLocale == "none"
\* The mark of a stored response that no request produced: the zero value
\* a call stores when do() returned nil without an attempt.
ZeroResponse == "zero"

\* Nobody holds a lock, the client has its first locale, nothing is cached.
InitNoLocks ==
    /\ held = [p \in Procs |-> {}]
    /\ setterPc = "idle"
    /\ locale = "US"
    /\ keyLoc = [c \in Callers |-> NoLocale]
    /\ hdrLoc = [c \in Callers |-> NoLocale]
    /\ storeLoc = [c \in Callers |-> NoLocale]
    /\ lcache = [l \in Locales |-> NoLocale]
    /\ depth = [c \in Callers |-> 0]

\* No function is applied on its own.
NoCall == [fn |-> "", err |-> "", status |-> 0]
NoReturn == [done |-> FALSE, val |-> FALSE]
InitNoFn == fnArgs = NoCall /\ fnResult = NoReturn

\* A client nobody uses yet.
InitIdleClient ==
    /\ accessToken = NoToken
    /\ tokenExpiry = ZeroTime
    /\ muHolder = 0
    /\ exchanges = 0
    /\ epochExchanges = 0
    /\ epochUnusable = 0
    /\ lastInvalidated = 0
    /\ pc = [c \in Callers |-> "idle"]
    /\ kind = [c \in Callers |-> "details"]
    /\ attempt = [c \in Callers |-> 0]
    /\ retry401 = [c \in Callers |-> FALSE]
    /\ tok = [c \in Callers |-> NoToken]
    /\ result = [c \in Callers |-> Nil]
    /\ value = [c \in Callers |-> NoValue]
    /\ calls = [c \in Callers |-> 0]
    /\ cancelled = [c \in Callers |-> "no"]
    /\ nSent = [c \in Callers |-> 0]
    /\ nSentLoop = [c \in Callers |-> 0]
    /\ sleeps = [c \in Callers |-> <<>>]
    /\ permit = [c \in Callers |-> FALSE]
    /\ lastEvent = [c \in Callers |-> ""]
    /\ lastData = [c \in Callers |-> ""]
    /\ hadEntry = [c \in Callers |-> FALSE]
    /\ lastGet = NoGet
    /\ lastSet = [k \in Keys |-> NoEntry]
    /\ pure = [c \in Callers |-> ""]
    /\ tokenVia = [c \in Callers |-> ""]
    /\ InitNoLocks

(***************************************************************************)
(* The limiter on its own: its operations called at any time.              *)
(***************************************************************************)
LimAllow == Allow /\ UNCHANGED <<clockVars, clientVars>>

LimStats == Stats /\ UNCHANGED <<clockVars, clientVars>>

LimWaitTime == WaitTime /\ UNCHANGED <<clockVars, clientVars>>

LimUpdate ==
    \E s \in RetryAfterVals : UpdateFromResponse(s) /\ UNCHANGED <<clockVars, clientVars>>

\* The clock advances.
Tick ==
    /\ ticks < tickBudget
    /\ \E d \in tickDeltas : now' = now + d
    /\ ticks' = ticks + 1
    /\ epochExchanges' = IF TokenValid /\ ~(now' < tokenExpiry - TokenExpiryBuffer)
                          THEN 0 ELSE epochExchanges
    /\ epochUnusable' = IF TokenValid /\ ~(now' < tokenExpiry - TokenExpiryBuffer)
                         THEN 0 ELSE epochUnusable
    /\ UNCHANGED <<limVars, limGhost, cfgVars, memGhost, fnVars, lockVars, tmVars, exchanges, lastInvalidated, cache, callVars, callGhost>>

\* A limiter just constructed, at time 0, and its empty history.
InitLimiterState ==
    /\ minuteCount = 0
    /\ dayCount = 0
    /\ minuteResetTime = MinuteDur
    /\ dayResetTime = DayDur
    /\ now = 0
    /\ ticks = 0
    /\ lastOp = OpRecord("none", 0, Nil, NoStats, 0)
    /\ pristine = TRUE
    /\ nAllow = 0
    /\ lastDeadline = 0
    /\ maxDeadline = 0
    /\ admMinute = 0
    /\ admDay = 0

\* NewRateLimiterWithLimits(m, d) at time 0, used directly.
InitLimiter ==
    /\ minuteLimit \in 1..MaxLimit
    /\ dayLimit \in 1..MaxLimit
    /\ InitLimiterState
    /\ InitIdleClient
    /\ InitNoFn
    /\ callers = {}
    /\ maxRetries = 0
    /\ cacheEnabled = FALSE
    /\ dataResponses = {}
    /\ tokenResponses = {}
    /\ callBudget = 0
    /\ methods = {}
    /\ tickDeltas = TickDeltas
    /\ tickBudget = MaxTicks
    /\ cache = [k \in Keys |-> NoEntry]

NextLimiter == LimAllow \/ LimStats \/ LimWaitTime \/ LimUpdate \/ Tick

SpecLimiter == InitLimiter /\ [][NextLimiter]_vars

(***************************************************************************)
(* The client used by its callers.                                         *)
(***************************************************************************)
\* The limits of the client's limiter: the defaults of NewRateLimiter, or
\* those of a limiter given with WithRateLimiter that allows one request
\* per minute or per day.
ClientLimits ==
    { <<DefaultMinuteLimit, DefaultDayLimit>>, <<1, DefaultDayLimit>>,
      <<DefaultMinuteLimit, 1>> }

\* NewClient(..., WithoutCache()) with any retry configuration, used by one
\* caller for one call; a minute and a second may pass at any moment.
Init ==
    /\ \E lim \in ClientLimits : minuteLimit = lim[1] /\ dayLimit = lim[2]
    /\ InitLimiterState
    /\ InitIdleClient
    /\ InitNoFn
    /\ callers = {1}
    /\ maxRetries \in RetryChoices
    /\ cacheEnabled = FALSE
    /\ dataResponses = AllDataResponses
    /\ tokenResponses = AllTokenResponses
    /\ callBudget = 1
    /\ methods = Kinds
    /\ tickDeltas = {MinuteDur + 1}
    /\ tickBudget = ClientTicks
    /\ cache = [k \in Keys |-> NoEntry]

Next ==
    \/ \E c \in Callers :
          \/ StartCall(c)
          \/ Sleep(c)
          \/ DoAllow(c)
          \/ GetToken(c)
          \/ RefreshLock(c)
          \/ ExchangeDone(c)
          \/ DataResponse(c)
          \/ Invalidate(c)
    \/ Tick

Spec == Init /\ [][Next]_vars

\* One caller whose context may be cancelled or run out at any moment of
\* its call; the call is answered 200, 401 or 503 or not in time and is
\* retried, the token endpoint may time out, a minute may pass.
CancelDataResponses ==
    { Resp("http", 200, "", "json"), Resp("http", 401, "", "json"),
      Resp("http", 503, "", "json"), Resp("timeout", 0, "", "") }
CancelTokenResponses == { TokResp("ok", 3600), TokResp("timeout", 0) }

InitCancel ==
    /\ minuteLimit = DefaultMinuteLimit
    /\ dayLimit = DefaultDayLimit
    /\ InitLimiterState
    /\ InitIdleClient
    /\ InitNoFn
    /\ callers = {1}
    /\ maxRetries \in 1..MaxRetriesBound
    /\ cacheEnabled = FALSE
    /\ dataResponses = CancelDataResponses
    /\ tokenResponses = CancelTokenResponses
    /\ callBudget = 1
    /\ methods = {"details"}
    /\ tickDeltas = {MinuteDur + 1}
    /\ tickBudget = ClientTicks
    /\ cache = [k \in Keys |-> NoEntry]

NextCancel == Next \/ \E c \in Callers : Cancel(c)

SpecCancel == InitCancel /\ [][NextCancel]_vars

\* Callers sharing the token manager of a client built WithoutRetry(), each
\* with a context that may be cancelled or run out at any moment; the token
\* endpoint and the API answer 200, so no call retries or restarts.
LockWaitDataResponses == { Resp("http", 200, "", "json") }
LockWaitTokenResponses == { TokResp("ok", 3600) }

InitLockWait ==
    /\ minuteLimit = DefaultMinuteLimit
    /\ dayLimit = DefaultDayLimit
    /\ InitLimiterState
    /\ InitIdleClient
    /\ InitNoFn
    /\ callers = Callers
    /\ maxRetries = 0
    /\ cacheEnabled = FALSE
    /\ dataResponses = LockWaitDataResponses
    /\ tokenResponses = LockWaitTokenResponses
    /\ callBudget = 1
    /\ methods = {"details"}
    /\ tickDeltas = {}
    /\ tickBudget = 0
    /\ cache = [k \in Keys |-> NoEntry]

NextLockWait ==
    \E c \in Callers :
        \/ StartCall(c)
        \/ DoAllow(c)
        \/ GetToken(c)
        \/ RefreshLock(c)
        \/ ExchangeDone(c)
        \/ DataResponse(c)
        \/ Cancel(c)

SpecLockWait == InitLockWait /\ [][NextLockWait]_vars

\* What a cache handed to WithCache may hold when the client starts: per
\* key nothing, a serialized result, or bytes that do not deserialize.
Preloaded == [by |-> 0, n |-> 1]
CacheInits ==
    [Keys -> {NoEntry, Entry(Preloaded, TRUE, SearchTTL), Entry(Preloaded, FALSE, SearchTTL)}]

CacheDataResponses ==
    { Resp("http", 200, "", "json"), Resp("http", 401, "", "json"),
      Resp("http", 503, "", "json") }
CacheTokenResponses == { TokResp("ok", 3600), TokResp("apierr", 0) }

\* NewClient(..., WithCache(ch)) with caching enabled, used by one caller
\* for several calls in a row; the clock can jump by the search TTL.
InitCache ==
    /\ minuteLimit = DefaultMinuteLimit
    /\ dayLimit = DefaultDayLimit
    /\ InitLimiterState
    /\ InitIdleClient
    /\ InitNoFn
    /\ callers = {1}
    /\ maxRetries \in {-1, 1}
    /\ cacheEnabled = TRUE
    /\ dataResponses = CacheDataResponses
    /\ tokenResponses = CacheTokenResponses
    /\ callBudget = MaxCalls
    /\ methods = Kinds
    /\ tickDeltas = {SearchTTL}
    /\ tickBudget = ClientTicks
    /\ cache \in CacheInits

\* The steps of a client with caching enabled.
NextCache == Next \/ \E c \in Callers : StoreResult(c)

SpecCache == InitCache /\ [][NextCache]_vars

\* Callers sharing one client built WithoutRetry() and its token manager:
\* every call is answered 200 or 401, the token endpoint hands out a
\* long-lived token, a token that is already inside the expiry buffer, or an
\* error, and the clock can jump past the lifetime of a token.
TokenDataResponses == { Resp("http", 200, "", "json"), Resp("http", 401, "", "json") }
TokenTokenResponses == { TokResp("ok", 3600), TokResp("ok", 30), TokResp("apierr", 0) }

InitToken ==
    /\ minuteLimit = DefaultMinuteLimit
    /\ dayLimit = DefaultDayLimit
    /\ InitLimiterState
    /\ InitIdleClient
    /\ InitNoFn
    /\ callers = Callers
    /\ maxRetries = 0
    /\ cacheEnabled = FALSE
    /\ dataResponses = TokenDataResponses
    /\ tokenResponses = TokenTokenResponses
    /\ callBudget = 1
    /\ methods = {"details"}
    /\ tickDeltas = {3600}
    /\ tickBudget = ClientTicks
    /\ cache = [k \in Keys |-> NoEntry]

\* Without retries doWithRetry never reaches its backoff sleep.
NextToken ==
    \/ \E c \in Callers :
          \/ StartCall(c)
          \/ DoAllow(c)
          \/ GetToken(c)
          \/ RefreshLock(c)
          \/ ExchangeDone(c)
          \/ DataResponse(c)
          \/ Invalidate(c)
    \/ Tick

SpecToken == InitToken /\ [][NextToken]_vars

\* Callers sharing one client and one small rate limiter: calls are answered
\* 200, 401 or 503, with one retry, and the clock can jump past the
\* minute window.
AdmitDataResponses ==
    { Resp("http", 200, "", "json"), Resp("http", 401, "", "json"),
      Resp("http", 503, "", "json") }
AdmitTokenResponses == { TokResp("ok", 3600) }

InitAdmit ==
    /\ minuteLimit \in 1..MaxLimit
    /\ dayLimit = MaxLimit + 1
    /\ InitLimiterState
    /\ InitIdleClient
    /\ InitNoFn
    /\ callers = Callers
    /\ maxRetries = 1
    /\ cacheEnabled = FALSE
    /\ dataResponses = AdmitDataResponses
    /\ tokenResponses = AdmitTokenResponses
    /\ callBudget = 1
    /\ methods = {"details"}
    /\ tickDeltas = {MinuteDur + 1}
    /\ tickBudget = ClientTicks
    /\ cache = [k \in Keys |-> NoEntry]

SpecAdmit == InitAdmit /\ [][Next]_vars

(***************************************************************************)
(* The cache on its own: a MemoryCache used directly while time passes.    *)
(***************************************************************************)
\* The values stored and the TTLs they are stored with, in seconds.
MemValues == {[by |-> 0, n |-> 1], [by |-> 0, n |-> 2]}
MemTTLs == {0, 1, 2}

\* NewMemoryCache(interval) at time 0: empty.
InitMemCache ==
    /\ minuteLimit = DefaultMinuteLimit
    /\ dayLimit = DefaultDayLimit
    /\ InitLimiterState
    /\ InitIdleClient
    /\ InitNoFn
    /\ callers = {}
    /\ maxRetries = 0
    /\ cacheEnabled = TRUE
    /\ dataResponses = {}
    /\ tokenResponses = {}
    /\ callBudget = 0
    /\ methods = {}
    /\ tickDeltas = {1}
    /\ tickBudget = MaxTicks
    /\ cache = [k \in Keys |-> NoEntry]

MemFrame ==
    UNCHANGED <<limVars, limGhost, clockVars, cfgVars, fnVars, lockVars, tmVars, tmGhost, callVars, callGhost>>

CacheGet == \E key \in Keys : MemGet(key) /\ MemFrame

CacheSetOp == \E key \in Keys, v \in MemValues, ttl \in MemTTLs : MemSet(key, v, ttl) /\ MemFrame

CacheDelete == \E key \in Keys : MemDelete(key) /\ MemFrame

CacheClear == MemClear /\ MemFrame

CacheSweep == MemSweep /\ MemFrame

NextMemCache == CacheGet \/ CacheSetOp \/ CacheDelete \/ CacheClear \/ CacheSweep \/ Tick

SpecMemCache == InitMemCache /\ [][NextMemCache]_vars

(***************************************************************************)
(* The retry policy on its own: shouldRetry applied to the arguments       *)
(* doOnce passes.                                                          *)
(***************************************************************************)
\* The transport errors: none, a timeout, a temporary condition, the
\* deadline of the context, a refused connection, a cancelled context.
ErrKinds == {"nil", "timeout", "temporary", "deadline", "refused", "canceled"}
\* The status codes: 0 when no response came, else an HTTP status.
StatusCodes == {0} \cup (100..599)
\* doOnce calls shouldRetry(err, 0) for a transport error and
\* shouldRetry(nil, status) for a response.
ShouldRetryArgs ==
    { [fn |-> "shouldRetry", err |-> e, status |-> st] :
        <<e, st>> \in {p \in ErrKinds \X StatusCodes : p[1] = "nil" \/ p[2] = 0} }

InitRetryPolicy ==
    /\ minuteLimit = DefaultMinuteLimit
    /\ dayLimit = DefaultDayLimit
    /\ InitLimiterState
    /\ InitIdleClient
    /\ fnArgs \in ShouldRetryArgs
    /\ fnResult = NoReturn
    /\ callers = {}
    /\ maxRetries = 0
    /\ cacheEnabled = FALSE
    /\ dataResponses = {}
    /\ tokenResponses = {}
    /\ callBudget = 0
    /\ methods = {}
    /\ tickDeltas = {}
    /\ tickBudget = 0
    /\ cache = [k \in Keys |-> NoEntry]

\* shouldRetry(err, statusCode) is called and returns.
CallShouldRetry ==
    /\ fnArgs.fn = "shouldRetry"
    /\ ~fnResult.done
    /\ fnResult' = [done |-> TRUE, val |-> ShouldRetry(Transient(fnArgs.err), fnArgs.status)]
    /\ UNCHANGED <<fnArgs, limVars, limGhost, clockVars, cfgVars, memGhost, lockVars, cache,
                   tmVars, tmGhost, callVars, callGhost>>

NextRetryPolicy == CallShouldRetry

SpecRetryPolicy == InitRetryPolicy /\ [][NextRetryPolicy]_vars

(***************************************************************************)
(* One call, lock by lock.  ProductDetails with caching enabled, each      *)
(* Lock / RLock and each Unlock / RUnlock a step of its own: localeMu      *)
(* (getLocale, SetLocale), the cache's lock (Get, Set), the limiter's mu   *)
(* (Allow, UpdateFromResponse) and the token manager's mu (getToken,       *)
(* refreshToken, invalidate).  Positions ending in _l hold the lock of     *)
(* their section; "exchange", "send" and "sleep" are the token exchange,   *)
(* the data request and the backoff sleep in progress.                     *)
(***************************************************************************)
LockOf(l, m) == <<l, m>>

\* Lock() returns when nobody holds the lock, RLock() when no writer does.
CanLock(l, m) ==
    IF m = "r"
    THEN \A q \in Procs : LockOf(l, "w") \notin held[q]
    ELSE \A q \in Procs : LockOf(l, "w") \notin held[q] /\ LockOf(l, "r") \notin held[q]

Acquired(p, l, m) == [held EXCEPT ![p] = @ \cup {LockOf(l, m)}]

\* An Unlock that is missing.
Released_Kept(p, l, m) == held

\* Unlock / RUnlock, also as deferred to the return of the function.
Released(p, l, m) == [held EXCEPT ![p] = @ \ {LockOf(l, m)}]

\* Where a call takes a lock: the position before, the lock and its mode,
\* the position inside.
Site(at, l, m, to) == [at |-> at, lock |-> l, mode |-> m, to |-> to]
AcquireSites ==
    { Site("key", "locale", "r", "key_l"),       \* getLocale for the lookup key
      Site("get", "cache", "w", "get_l"),        \* cache.Get
      Site("allow", "limiter", "w", "allow_l"),  \* rateLimiter.Allow
      Site("token", "token", "r", "token_l"),    \* getToken
      Site("lock", "token", "w", "recheck"),     \* refreshToken
      Site("hdr", "locale", "r", "hdr_l"),       \* getLocale for the headers
      Site("upd", "limiter", "w", "upd_l"),      \* rateLimiter.UpdateFromResponse
      Site("inval", "token", "w", "inval_l"),    \* tokenManager.invalidate
      Site("skey", "locale", "r", "skey_l"),     \* getLocale for the store key
      Site("set", "cache", "w", "set_l") }       \* cache.Set

\* What every step of this specification leaves alone.
LkFrame ==
    UNCHANGED <<clockVars, cfgVars, memGhost, fnVars, epochExchanges, epochUnusable, lastInvalidated,
                muHolder, cache, kind, tok, value, cancelled, callGhost>>

\* ProductDetails is called.
LkStart(c) ==
    /\ c \in callers
    /\ pc[c] \in {"idle", "done"}
    /\ calls[c] < callBudget
    /\ calls' = [calls EXCEPT ![c] = @ + 1]
    /\ pc' = [pc EXCEPT ![c] = IF cacheEnabled THEN "key" ELSE IF MaxAttempts <= 0 THEN "done" ELSE "allow"]
    /\ attempt' = [attempt EXCEPT ![c] = 0]
    /\ retry401' = [retry401 EXCEPT ![c] = FALSE]
    /\ depth' = [depth EXCEPT ![c] = 0]
    /\ result' = [result EXCEPT ![c] = Nil]
    /\ keyLoc' = [keyLoc EXCEPT ![c] = NoLocale]
    /\ hdrLoc' = [hdrLoc EXCEPT ![c] = NoLocale]
    /\ storeLoc' = [storeLoc EXCEPT ![c] = NoLocale]
    /\ UNCHANGED <<limVars, limGhost, accessToken, tokenExpiry, exchanges, held, setterPc, locale, lcache>>
    /\ LkFrame

\* The call blocks in Lock / RLock until the lock is granted.
LkAcquire(c) ==
    /\ c \in callers
    /\ \E s \in AcquireSites :
        /\ pc[c] = s.at
        /\ CanLock(s.lock, s.mode)
        /\ held' = Acquired(c, s.lock, s.mode)
        /\ pc' = [pc EXCEPT ![c] = s.to]
    /\ UNCHANGED <<limVars, limGhost, accessToken, tokenExpiry, exchanges, attempt, retry401, depth,
                   result, calls, setterPc, localeVars>>
    /\ LkFrame

\* getLocale returns: the locale read under the read lock, for the key of
\* the lookup, the headers of the request, or the key of the store.
LkLocaleRead(c) ==
    /\ pc[c] \in {"key_l", "hdr_l", "skey_l"}
    /\ held' = Released(c, "locale", "r")
    /\ pc' = [pc EXCEPT ![c] = CASE pc[c] = "key_l" -> "get"
                                 [] pc[c] = "hdr_l" -> "send"
                                 [] OTHER -> "set"]
    /\ keyLoc' = [keyLoc EXCEPT ![c] = IF pc[c] = "key_l" THEN locale ELSE @]
    /\ hdrLoc' = [hdrLoc EXCEPT ![c] = IF pc[c] = "hdr_l" THEN locale ELSE @]
    /\ storeLoc' = [storeLoc EXCEPT ![c] = IF pc[c] = "skey_l" THEN locale ELSE @]
    /\ UNCHANGED <<limVars, limGhost, accessToken, tokenExpiry, exchanges, attempt, retry401, depth,
                   result, calls, setterPc, locale, lcache>>
    /\ LkFrame

\* cache.Get returns: a hit ends the call, a miss enters do(), which
\* returns nil at once when the loop has no attempt, and the call goes on
\* to store.
LkCacheGet(c) ==
    /\ pc[c] = "get_l"
    /\ held' = Released(c, "cache", "w")
    /\ pc' = [pc EXCEPT ![c] = IF lcache[keyLoc[c]] # NoLocale THEN "done"
                               ELSE IF MaxAttempts <= 0 THEN "skey"
                               ELSE "allow"]
    /\ UNCHANGED <<limVars, limGhost, accessToken, tokenExpiry, exchanges, attempt, retry401, depth,
                   result, calls, setterPc, localeVars>>
    /\ LkFrame

\* What doWithRetry does with the outcome of an attempt.
LkDecide(c, out) ==
    LET d == LoopDecision(out, attempt[c], retry401[c]) IN
    /\ pc' = [pc EXCEPT ![c] = CASE d = "restart" -> "inval"
                                 [] d = "continue" -> "sleep"
                                 [] d = "return_nil" /\ cacheEnabled -> "skey"
                                 [] OTHER -> "done"]
    /\ attempt' = [attempt EXCEPT ![c] = IF d = "continue" THEN @ + 1 ELSE @]
    /\ result' = [result EXCEPT ![c] = IF d = "return_err" THEN out.err ELSE @]

\* Allow() returns.
LkAllow(c) ==
    /\ pc[c] = "allow_l"
    /\ held' = Released(c, "limiter", "w")
    /\ Allow
    /\ IF AllowResult = Nil
       THEN /\ pc' = [pc EXCEPT ![c] = "token"]
            /\ UNCHANGED <<attempt, result>>
       ELSE LkDecide(c, DoOnceAllowFail(AllowResult))
    /\ UNCHANGED <<accessToken, tokenExpiry, exchanges, retry401, depth, calls, setterPc, localeVars>>
    /\ LkFrame

\* getToken releases the read lock and checks the token it read.
LkGetToken(c) ==
    /\ pc[c] = "token_l"
    /\ held' = Released(c, "token", "r")
    /\ pc' = [pc EXCEPT ![c] = IF GetTokenCached THEN "hdr" ELSE "lock"]
    /\ UNCHANGED <<limVars, limGhost, accessToken, tokenExpiry, exchanges, attempt, retry401, depth,
                   result, calls, setterPc, localeVars>>
    /\ LkFrame

\* refreshToken, holding mu: the re-check returns the cached token and
\* releases mu, or the exchange is sent with mu held.
LkRecheck(c) ==
    /\ pc[c] = "recheck"
    /\ IF RefreshRecheck
       THEN /\ held' = Released(c, "token", "w")
            /\ pc' = [pc EXCEPT ![c] = "hdr"]
            /\ UNCHANGED exchanges
       ELSE /\ pc' = [pc EXCEPT ![c] = "exchange"]
            /\ exchanges' = exchanges + 1
            /\ UNCHANGED held
    /\ UNCHANGED <<limVars, limGhost, accessToken, tokenExpiry, attempt, retry401, depth,
                   result, calls, setterPc, localeVars>>
    /\ LkFrame

\* The token endpoint answers; refreshToken returns and its deferred
\* Unlock runs.
LkExchangeDone(c) ==
    /\ pc[c] = "exchange"
    /\ held' = Released(c, "token", "w")
    /\ \E r \in tokenResponses :
        IF r.t = "ok"
        THEN /\ accessToken' = exchanges
             /\ tokenExpiry' = now + r.expiresIn
             /\ pc' = [pc EXCEPT ![c] = "hdr"]
             /\ UNCHANGED <<attempt, result>>
        ELSE /\ LkDecide(c, DoOnceTokenFail(r))
             /\ UNCHANGED <<accessToken, tokenExpiry>>
    /\ UNCHANGED <<limVars, limGhost, exchanges, retry401, depth, calls, setterPc, localeVars>>
    /\ LkFrame

\* The data request is answered.  A 429 with a positive Retry-After goes
\* on to the locked part of UpdateFromResponse; with any other Retry-After
\* UpdateFromResponse returns before it locks.
LkResponse(c) ==
    /\ pc[c] = "send"
    /\ \E r \in dataResponses :
        IF r.t = "http" /\ r.code = 429 /\ ParseRetryAfter(r.ra) > 0
        THEN /\ pc' = [pc EXCEPT ![c] = "upd"]
             /\ UNCHANGED <<attempt, result>>
        ELSE LkDecide(c, DoOnceResponse(r))
    /\ UNCHANGED <<limVars, limGhost, accessToken, tokenExpiry, exchanges, retry401, depth, calls,
                   held, setterPc, localeVars>>
    /\ LkFrame

\* UpdateFromResponse returns, and doOnce with the 429.
LkUpdate(c) ==
    /\ pc[c] = "upd_l"
    /\ held' = Released(c, "limiter", "w")
    /\ \E r \in {x \in dataResponses : x.t = "http" /\ x.code = 429 /\ ParseRetryAfter(x.ra) > 0} :
        /\ UpdateFromResponse(ParseRetryAfter(r.ra))
        /\ LkDecide(c, DoOnceResponse(r))
    /\ UNCHANGED <<accessToken, tokenExpiry, exchanges, retry401, depth, calls, setterPc, localeVars>>
    /\ LkFrame

\* invalidate() returns, and doWithRetry calls itself with
\* isRetryAfter401 = true.
LkInvalidate(c) ==
    /\ pc[c] = "inval_l"
    /\ held' = Released(c, "token", "w")
    /\ accessToken' = Invalidated.token
    /\ tokenExpiry' = Invalidated.expiry
    /\ retry401' = [retry401 EXCEPT ![c] = TRUE]
    /\ depth' = [depth EXCEPT ![c] = @ + 1]
    /\ attempt' = [attempt EXCEPT ![c] = RestartAttempt(@)]
    /\ pc' = [pc EXCEPT ![c] = "allow"]
    /\ UNCHANGED <<limVars, limGhost, exchanges, result, calls, setterPc, localeVars>>
    /\ LkFrame

\* The backoff sleep ends.
LkSleep(c) ==
    /\ pc[c] = "sleep"
    /\ pc' = [pc EXCEPT ![c] = "allow"]
    /\ UNCHANGED <<limVars, limGhost, accessToken, tokenExpiry, exchanges, attempt, retry401, depth,
                   result, calls, held, setterPc, localeVars>>
    /\ LkFrame

\* cache.Set returns, and the call: the response, fetched with the headers
\* of hdrLoc, or the zero value of a call that sent no request, is stored
\* under the key of storeLoc.
LkCacheSet(c) ==
    /\ pc[c] = "set_l"
    /\ held' = Released(c, "cache", "w")
    /\ lcache' = [lcache EXCEPT ![storeLoc[c]] =
                      IF hdrLoc[c] = NoLocale THEN ZeroResponse ELSE hdrLoc[c]]
    /\ pc' = [pc EXCEPT ![c] = "done"]
    /\ UNCHANGED <<limVars, limGhost, accessToken, tokenExpiry, exchanges, attempt, retry401, depth,
                   result, calls, setterPc, locale, keyLoc, hdrLoc, storeLoc>>
    /\ LkFrame

\* SetLocale, called once by another goroutine: Lock, then the assignment
\* and the deferred Unlock.
LkSetLocaleLock ==
    /\ setterPc = "idle"
    /\ CanLock("locale", "w")
    /\ held' = Acquired(0, "locale", "w")
    /\ setterPc' = "locked"
    /\ UNCHANGED <<limVars, limGhost, accessToken, tokenExpiry, exchanges, pc, attempt, retry401, depth,
                   result, calls, localeVars>>
    /\ LkFrame

LkSetLocale ==
    /\ setterPc = "locked"
    /\ \E l \in Locales : locale' = l
    /\ held' = Released(0, "locale", "w")
    /\ setterPc' = "done"
    /\ UNCHANGED <<limVars, limGhost, accessToken, tokenExpiry, exchanges, pc, attempt, retry401, depth,
                   result, calls, keyLoc, hdrLoc, storeLoc, lcache>>
    /\ LkFrame

\* The steps of caller c.
LkStep(c) ==
    \/ LkStart(c)
    \/ LkAcquire(c)
    \/ LkLocaleRead(c)
    \/ LkCacheGet(c)
    \/ LkAllow(c)
    \/ LkGetToken(c)
    \/ LkRecheck(c)
    \/ LkExchangeDone(c)
    \/ LkResponse(c)
    \/ LkUpdate(c)
    \/ LkInvalidate(c)
    \/ LkSleep(c)
    \/ LkCacheSet(c)

NextLocks == (\E c \in Callers : LkStep(c)) \/ LkSetLocaleLock \/ LkSetLocale

\* Two callers make one ProductDetails call each on a client with caching
\* and one retry, none, or a negative MaxRetries, while a third goroutine
\* calls SetLocale; the limiter admits three requests a minute; the API
\* answers 200, 401, 503 or 429 with or without Retry-After, the token
\* endpoint a token or an error.
LocksDataResponses ==
    { Resp("http", 200, "", "json"), Resp("http", 401, "", "json"),
      Resp("http", 503, "", "json"), Resp("http", 429, "120", "json"),
      Resp("http", 429, "", "json") }
LocksTokenResponses == { TokResp("ok", 3600), TokResp("apierr", 0) }

InitLocks ==
    /\ minuteLimit = 3
    /\ dayLimit = DefaultDayLimit
    /\ InitLimiterState
    /\ InitIdleClient
    /\ InitNoFn
    /\ callers = {1, 2}
    /\ maxRetries \in {-1, 0, 1}
    /\ cacheEnabled = TRUE
    /\ dataResponses = LocksDataResponses
    /\ tokenResponses = LocksTokenResponses
    /\ callBudget = 1
    /\ methods = {"details"}
    /\ tickDeltas = {}
    /\ tickBudget = 0
    /\ cache = [k \in Keys |-> NoEntry]

SpecLocks == InitLocks /\ [][NextLocks]_vars

\* The steps of a call that is under way: everything but the caller's
\* decision to make a call.
LkProgress(c) ==
    \/ LkLocaleRead(c)
    \/ LkCacheGet(c)
    \/ LkAllow(c)
    \/ LkGetToken(c)
    \/ LkRecheck(c)
    \/ LkExchangeDone(c)
    \/ LkResponse(c)
    \/ LkUpdate(c)
    \/ LkInvalidate(c)
    \/ LkSleep(c)
    \/ LkCacheSet(c)

\* The same under fair scheduling: a goroutine that can run does run, a
\* network exchange and a sleep come to an end (weak fairness of the steps
\* that wait for no lock), and a goroutine blocked in Lock / RLock gets the
\* lock if it is free again and again (strong fairness of the acquisition:
\* sync.Mutex and sync.RWMutex hand a lock over to a waiter that has been
\* passed over).
LocksFairness ==
    /\ \A c \in Callers : WF_vars(LkProgress(c)) /\ SF_vars(LkAcquire(c))
    /\ WF_vars(LkSetLocale)

SpecLocksFair == InitLocks /\ [][NextLocks]_vars /\ LocksFairness

(***************************************************************************)
(* A caching client whose calls fail in every way.                         *)
(***************************************************************************)
\* NewClient(..., WithCache(ch), WithRateLimiter(1 per minute)): one caller,
\* several calls, a preloaded cache; the calls are answered 200 (with a
\* body that parses or not), 401, 404, 503 or time out, the token endpoint
\* may refuse the credentials, and the context may be cancelled.
CacheWriteDataResponses ==
    { Resp("http", 200, "", "json"), Resp("http", 200, "", "malformed"),
      Resp("http", 401, "", "json"), Resp("http", 404, "", "json"),
      Resp("http", 503, "", "json"), Resp("timeout", 0, "", "") }
CacheWriteTokenResponses == { TokResp("ok", 3600), TokResp("autherr", 0) }

InitCacheWrite ==
    /\ minuteLimit = 1
    /\ dayLimit = DefaultDayLimit
    /\ InitLimiterState
    /\ InitIdleClient
    /\ InitNoFn
    /\ callers = {1}
    /\ maxRetries \in {-1, 1}
    /\ cacheEnabled = TRUE
    /\ dataResponses = CacheWriteDataResponses
    /\ tokenResponses = CacheWriteTokenResponses
    /\ callBudget = MaxCalls
    /\ methods = Kinds
    /\ tickDeltas = {SearchTTL}
    /\ tickBudget = ClientTicks
    /\ cache \in CacheInits

NextCacheWrite == NextCache \/ \E c \in Callers : Cancel(c)

SpecCacheWrite == InitCacheWrite /\ [][NextCacheWrite]_vars

(***************************************************************************)
(* One caller and a token endpoint that fails in every way.                *)
(***************************************************************************)
\* The token endpoint hands out a token, answers 401 with a structured
\* error body, answers 500 or 401 without one, times out, or answers 200
\* with a body that does not parse; tokens expire between calls.
TokenFailDataResponses == { Resp("http", 200, "", "json"), Resp("http", 401, "", "json") }
TokenFailTokenResponses ==
    { TokResp("ok", 3600), TokResp("autherr", 0), TokResp("apierr", 0),
      TokResp("apierr401", 0), TokResp("timeout", 0), TokResp("malformed", 0) }

InitTokenFail ==
    /\ minuteLimit = DefaultMinuteLimit
    /\ dayLimit = DefaultDayLimit
    /\ InitLimiterState
    /\ InitIdleClient
    /\ InitNoFn
    /\ callers = {1}
    /\ maxRetries \in {0, 1}
    /\ cacheEnabled = FALSE
    /\ dataResponses = TokenFailDataResponses
    /\ tokenResponses = TokenFailTokenResponses
    /\ callBudget = MaxCalls
    /\ methods = {"details"}
    /\ tickDeltas = {3600}
    /\ tickBudget = ClientTicks
    /\ cache = [k \in Keys |-> NoEntry]

SpecTokenFail == InitTokenFail /\ [][Next]_vars

(***************************************************************************)
(* Properties of the limiter.                                              *)
(***************************************************************************)
\* C8: on a fresh limiter with minute limit N <= day limit and no window
\* reset elapsing, the first N Allow() calls succeed and every later one
\* (the (N+1)th first) fails with a RateLimitError tagged "minute" that
\* matches ErrRateLimitExceeded.
C8_MinuteLimitExact ==
    (pristine /\ minuteLimit <= dayLimit /\ lastOp.op = "Allow") =>
        /\ (nAllow <= minuteLimit => lastOp.err = Nil)
        /\ (nAllow > minuteLimit =>
                /\ lastOp.err.kind = "RateLimitError"
                /\ lastOp.err.window = "minute"
                /\ ErrorsIs(lastOp.err, "ErrRateLimitExceeded"))

\* The (N+1)th Allow() on a fresh limiter whose two limits are equal.
C8_Witness ==
    /\ pristine /\ lastOp.op = "Allow"
    /\ minuteLimit = dayLimit /\ minuteLimit = MaxLimit
    /\ nAllow = minuteLimit + 1
    /\ lastOp.err.window = "minute"

\* C9 as stated: once UpdateFromResponse(s), s > 0, ran at time t, every
\* Allow() before t + s fails, whatever other limiter operations ran in
\* between.
C9_Original ==
    (lastOp.op = "Allow" /\ lastOp.at < maxDeadline) => lastOp.err # Nil

\* C9 amended: UpdateFromResponse(s), s > 0, at time t leaves the minute
\* window at count = limit and resetAt = t + s, and every Allow() made
\* before the deadline of the latest such update fails, whatever Allow,
\* Stats and WaitTime calls ran in between.
C9_ForcedUntilLatestDeadline ==
    /\ (lastOp.op = "UpdateFromResponse" /\ lastOp.arg > 0 =>
            /\ minuteCount = minuteLimit
            /\ minuteResetTime = lastOp.at + lastOp.arg)
    /\ (lastOp.op = "Allow" /\ lastOp.at < lastDeadline => lastOp.err # Nil)

\* An Allow() rejected before the deadline although no request had been
\* counted locally when the server's 429 arrived.
C9_Witness ==
    /\ lastOp.op = "Allow" /\ lastOp.at > 0 /\ lastOp.at < lastDeadline
    /\ lastOp.err.window = "minute"
    /\ nAllow = 1

\* C10: UpdateFromResponse(s) with s <= 0 changes no field of the limiter,
\* and with s > 0 it leaves the day window's count and reset time alone.
C10_UpdateFrame ==
    [][/\ (lastOp'.op = "UpdateFromResponse" /\ lastOp'.arg <= 0 => UNCHANGED limVars)
       /\ (lastOp'.op = "UpdateFromResponse" /\ lastOp'.arg > 0 =>
              UNCHANGED <<dayCount, dayResetTime>>)]_vars

\* UpdateFromResponse(-1) ran on a limiter that had counted a request.
C10_Witness ==
    /\ lastOp.op = "UpdateFromResponse" /\ lastOp.arg < 0
    /\ minuteCount = 1 /\ dayCount = 1 /\ minuteLimit = 2

\* C15: on a fresh limiter (no window elapsed, no UpdateFromResponse with a
\* positive argument) Stats() after K successful Allow() calls reports
\* used = K and remaining = limit - K for both windows, and every Stats()
\* has used + remaining = limit for each window.
C15_StatsCounts ==
    lastOp.op = "Stats" =>
        /\ lastOp.stats.MinuteUsed + lastOp.stats.MinuteRemaining = minuteLimit
        /\ lastOp.stats.DayUsed + lastOp.stats.DayRemaining = dayLimit
        /\ (pristine /\ lastOp.at <= minuteResetTime /\ lastOp.at <= dayResetTime) =>
                /\ lastOp.stats.MinuteUsed = admDay
                /\ lastOp.stats.MinuteRemaining = minuteLimit - admDay
                /\ lastOp.stats.DayUsed = admDay
                /\ lastOp.stats.DayRemaining = dayLimit - admDay

\* Stats() after two successful Allow() calls on a limiter of 2 per minute
\* and 2 per day.
C15_Witness ==
    /\ lastOp.op = "Stats" /\ pristine /\ lastOp.at > 0 /\ lastOp.at <= minuteResetTime
    /\ minuteLimit = 2 /\ dayLimit = 2 /\ admDay = 2
    /\ lastOp.stats.MinuteUsed = 2 /\ lastOp.stats.DayRemaining = 0

\* C16: Stats() and WaitTime() leave every field of the limiter as it was,
\* so an Allow() after them finds the state it would have found without
\* them; a Stats() made after the reset time of a window has passed reports
\* used = 0 for that window and leaves the stored counter alone.
C16_ReadOnly ==
    [][/\ (lastOp'.op \in {"Stats", "WaitTime"} => UNCHANGED limVars)
       /\ (lastOp'.op = "Stats" /\ lastOp'.at = now /\ WindowPassed(minuteResetTime) =>
              lastOp'.stats.MinuteUsed = 0 /\ minuteCount' = minuteCount)
       /\ (lastOp'.op = "Stats" /\ lastOp'.at = now /\ WindowPassed(dayResetTime) =>
              lastOp'.stats.DayUsed = 0 /\ dayCount' = dayCount)]_vars

\* Stats() after the minute window elapsed, with its counter still stored.
C16_Witness ==
    /\ lastOp.op = "Stats" /\ lastOp.at = now /\ now > minuteResetTime
    /\ minuteCount = minuteLimit
    /\ lastOp.stats.MinuteUsed = 0 /\ lastOp.stats.DayUsed = dayCount /\ dayCount > 0

\* Whether a window is exhausted at this instant, and its time until reset.
MinuteExhausted == MinuteCountNow >= minuteLimit
DayExhausted == DayCountNow >= dayLimit
MinuteUntilReset == minuteResetTime - now
DayUntilReset == dayResetTime - now
Larger(a, b) == IF a > b THEN a ELSE b

\* C17: WaitTime() is 0 when both windows have headroom in the lazy-reset
\* view; otherwise it is the larger of the times until reset of the windows
\* that are exhausted, and a window with headroom contributes nothing.
C17_WaitTimeValue ==
    (lastOp.op = "WaitTime" /\ lastOp.at = now) =>
        /\ (~MinuteExhausted /\ ~DayExhausted) => lastOp.wait = 0
        /\ (MinuteExhausted /\ ~DayExhausted) => lastOp.wait = MinuteUntilReset
        /\ (~MinuteExhausted /\ DayExhausted) => lastOp.wait = DayUntilReset
        /\ (MinuteExhausted /\ DayExhausted) =>
                lastOp.wait = Larger(MinuteUntilReset, DayUntilReset)

\* WaitTime() with the minute window exhausted and the day window not:
\* the minute's time until reset, not the day's.
C17_Witness ==
    /\ lastOp.op = "WaitTime" /\ lastOp.at = now /\ now = 1
    /\ MinuteExhausted /\ ~DayExhausted
    /\ lastOp.wait = MinuteDur - 1

\* C18 as stated: WaitTime() is 0 as soon as one of the two windows has
\* headroom.
C18_Original ==
    (lastOp.op = "WaitTime" /\ lastOp.at = now /\ (~MinuteExhausted \/ ~DayExhausted)) =>
        lastOp.wait = 0

\* C18: WaitTime() is 0 whenever both windows have headroom; when one
\* window has headroom and the other is exhausted and its reset time is
\* still ahead, WaitTime() is positive.
C18_BothHeadroom ==
    (lastOp.op = "WaitTime" /\ lastOp.at = now) =>
        /\ (~MinuteExhausted /\ ~DayExhausted) => lastOp.wait = 0
        /\ (MinuteExhausted /\ ~DayExhausted /\ now < minuteResetTime) => lastOp.wait > 0
        /\ (~MinuteExhausted /\ DayExhausted /\ now < dayResetTime) => lastOp.wait > 0

\* WaitTime() is positive although the day window has headroom.
C18_Witness ==
    /\ lastOp.op = "WaitTime" /\ lastOp.at = now
    /\ MinuteExhausted /\ ~DayExhausted /\ dayCount < dayLimit
    /\ lastOp.wait > 0

\* C19 as stated: whenever a window is exhausted, WaitTime() is strictly
\* positive and at most the duration of the exhausted window (of the day
\* window when both are exhausted).
C19_Original ==
    (lastOp.op = "WaitTime" /\ lastOp.at = now) =>
        /\ (MinuteExhausted /\ ~DayExhausted) => (lastOp.wait > 0 /\ lastOp.wait <= MinuteDur)
        /\ DayExhausted => (lastOp.wait > 0 /\ lastOp.wait <= DayDur)

(***************************************************************************)
(* Properties of the request pipeline.                                     *)
(***************************************************************************)
\* The backoff indices 0 .. n-1.
BackoffIndices(n) == [i \in 1..n |-> i - 1]

\* C1: with maxRetries = R >= 0, a call all of whose attempts end in a 503
\* response (no 401, no rate-limit or token failure) sends exactly R + 1
\* data requests, sleeps calculateBackoff(i - 1) before attempt i = 1..R and
\* nothing before attempt 0, and returns the 503 APIError, which matches
\* ErrServerError.
C1_ServerErrorsExhaustBudget ==
    \A c \in Callers :
        (pc[c] = "done" /\ maxRetries >= 0 /\ ~retry401[c] /\ pure[c] = "503") =>
            /\ nSent[c] = maxRetries + 1
            /\ sleeps[c] = BackoffIndices(maxRetries)
            /\ result[c] = APIError(503)
            /\ ErrorsIs(result[c], "ErrServerError")

\* A call with the largest MaxRetries that saw only 503 and returned.
C1_Witness ==
    /\ pc[1] = "done" /\ pure[1] = "503" /\ ~retry401[1]
    /\ maxRetries = MaxRetriesBound
    /\ nSent[1] = MaxRetriesBound + 1
    /\ Len(sleeps[1]) = MaxRetriesBound

\* The step in which the answer to caller c's data request is handled.
Answered(c) == pc[c] = "send" /\ pc'[c] # "send"

\* C2: a 401 answer to a call that has not restarted yet leads to the
\* invalidation of the credential and an immediate restart: the token is
\* cleared, the restarted call begins at attempt 0 with Allow(), and no
\* backoff sleep is taken.  A restarted call returns success when its
\* request gets a 2xx, and it has all maxRetries + 1 attempts: if all its
\* attempts end in 503 it sends maxRetries + 1 requests after the restart.
C2_RestartOn401 ==
    /\ [](\A c \in Callers :
            /\ (pc[c] = "done" /\ retry401[c] /\ lastEvent[c] = "200") => result[c] = Nil
            /\ (pc[c] = "done" /\ retry401[c] /\ pure[c] = "503") =>
                    /\ nSentLoop[c] = maxRetries + 1
                    /\ Len(sleeps[c]) >= maxRetries
                    /\ \A i \in 1..maxRetries :
                          sleeps[c][Len(sleeps[c]) - maxRetries + i] = i - 1)
    /\ [][\A c \in Callers :
            /\ (Answered(c) /\ lastEvent'[c] = "401" /\ ~retry401[c]) => pc'[c] = "inval"
            /\ (pc[c] = "inval" /\ pc'[c] # "inval") =>
                    /\ accessToken' = NoToken
                    /\ pc'[c] = "allow"
                    /\ attempt'[c] = 0
                    /\ retry401'[c]
                    /\ sleeps'[c] = sleeps[c]]_vars

\* A call that got 503, slept, got 401, restarted, and after another 503
\* and sleep succeeded.
C2_Witness ==
    /\ pc[1] = "done" /\ retry401[1] /\ result[1] = Nil /\ lastEvent[1] = "200"
    /\ nSent[1] = 4 /\ nSentLoop[1] = 2
    /\ sleeps[1] = <<0, 0>>
    /\ maxRetries = 1

\* C3: the restart happens at most once per call: the 401 path is entered
\* only by a call that has not restarted, and a 401 answer to a restarted
\* call ends the call at once with the APIError of status 401, which matches
\* ErrUnauthorized, whatever maxRetries is.
C3_Second401Terminal ==
    /\ [](\A c \in Callers : pc[c] = "inval" => ~retry401[c])
    /\ [][\A c \in Callers :
            (Answered(c) /\ lastEvent'[c] = "401" /\ retry401[c]) =>
                /\ pc'[c] = "done"
                /\ result'[c] = APIError(401)
                /\ ErrorsIs(result'[c], "ErrUnauthorized")
                /\ sleeps'[c] = sleeps[c]
                /\ nSent'[c] = nSent[c]]_vars

\* A restarted call with retry attempts left that got 401 again and returned it.
C3_Witness ==
    /\ pc[1] = "done" /\ retry401[1] /\ lastEvent[1] = "401"
    /\ result[1] = APIError(401)
    /\ maxRetries = MaxRetriesBound /\ attempt[1] = 0
    /\ nSent[1] = 2

\* C5: when Allow() fails in an attempt the call ends in that step with
\* the RateLimitError Allow() returned: no token exchange, no data request,
\* no backoff sleep and no further attempt.
C5_RateLimitTerminal ==
    [][\A c \in Callers :
        (pc[c] = "allow" /\ pc'[c] # "allow" /\ lastOp'.err # Nil) =>
            /\ pc'[c] = "done"
            /\ result'[c] = lastOp'.err
            /\ result'[c].kind = "RateLimitError"
            /\ ErrorsIs(result'[c], "ErrRateLimitExceeded")
            /\ nSent'[c] = nSent[c]
            /\ sleeps'[c] = sleeps[c]
            /\ UNCHANGED <<tmVars, exchanges>>]_vars

\* A call rejected by the limiter on its second attempt, with retry attempts left.
C5_Witness ==
    /\ pc[1] = "done" /\ lastEvent[1] = "allowfail"
    /\ result[1].kind = "RateLimitError"
    /\ attempt[1] = 1 /\ maxRetries = MaxRetriesBound
    /\ nSent[1] = 1 /\ sleeps[1] = <<0>>

(***************************************************************************)
(* Concurrent callers on one token manager (SpecToken)                     *)
(***************************************************************************)
\* C4 as stated: while the credential stays unset or invalid, exactly one
\* exchange is issued, however the exchange ends.
C4_Original == epochExchanges <= 1

\* C4: while the credential is unset or no longer valid, exchanges are
\* issued one at a time, under the lock and only while no valid token is
\* cached; an exchange is followed by another one only if it failed or its
\* token is already inside the expiry buffer, so one exchange that brings a
\* usable token is the only one; a caller that finds a valid token at the
\* re-check issues no exchange and sends with the cached token.
C4_SingleExchange ==
    /\ [](/\ epochExchanges <= epochUnusable + 1
          /\ Cardinality({c \in Callers : pc[c] = "exchange"}) <= 1
          /\ \A c \in Callers : pc[c] = "exchange" => muHolder = c /\ ~TokenValid)
    /\ [][\A c \in Callers :
            (pc[c] = "lock" /\ pc'[c] # "lock" /\ TokenValid) =>
                /\ pc'[c] = "send"
                /\ tok'[c] = accessToken
                /\ exchanges' = exchanges
                /\ UNCHANGED <<accessToken, tokenExpiry>>]_vars

\* Every caller has its request out with the token of the only exchange
\* issued; one got it from the exchange, the others at the re-check after
\* waiting for the lock.
C4_Witness ==
    /\ exchanges = 1
    /\ \A c \in Callers : pc[c] = "send" /\ tok[c] = 1
    /\ tokenVia[1] = "exchange"
    /\ \A c \in Callers \ {1} : tokenVia[c] = "recheck"

(***************************************************************************)
(* Concurrent callers on one rate limiter (SpecAdmit)                      *)
(***************************************************************************)
RECURSIVE SumSent(_)
\* The data requests sent by callers 1..n.
SumSent(n) == IF n = 0 THEN 0 ELSE nSent[n] + SumSent(n - 1)

\* C6: a caller is past Allow() in doOnce (fetching the token or with its
\* request out) only with a successful Allow() of that same attempt, in
\* first attempts, retries and the restart after a 401 alike; the requests
\* sent never outnumber the successful Allow() calls, and the successful
\* Allow() calls between two resets of a window never exceed its limit.
C6_AdmissionBound ==
    /\ \A c \in Callers : pc[c] \in {"token", "lock", "exchange", "send"} => permit[c]
    /\ admMinute <= minuteLimit
    /\ admDay <= dayLimit
    /\ dayResetTime = DayDur => SumSent(NumCallers) <= admDay

\* The minute window is used up after a reset: a caller that restarted
\* after a 401 has its request out, another one was refused by Allow().
C6_Witness ==
    \E c1, c2 \in Callers :
        /\ c1 # c2
        /\ ticks > 0
        /\ pc[c1] = "send" /\ permit[c1] /\ retry401[c1]
        /\ admMinute = minuteLimit
        /\ pc[c2] = "done" /\ lastEvent[c2] = "allowfail"

(***************************************************************************)
(* The caching client (SpecCache)                                          *)
(***************************************************************************)
\* C7: when caching is enabled and the cache holds an unexpired entry that
\* deserializes under the key of the call, KeywordSearch / ProductDetails
\* return the cached result with a nil error and nothing else happens: no
\* Allow(), no getToken, no token exchange and no request, so the counts and
\* reset times of both windows and the cached credential stay as they were.
C7_CacheHitFrame ==
    [][\A c \in Callers :
        LET k == kind'[c]
            e == cache[KeyOf(k)] IN
        (/\ calls'[c] # calls[c]
         /\ cacheEnabled /\ k \in {"search", "details"}
         /\ e.present /\ now < e.expiresAt /\ e.good) =>
            /\ pc'[c] = "done"
            /\ result'[c] = Nil
            /\ value'[c] = e.val
            /\ nSent'[c] = 0
            /\ UNCHANGED <<limVars, nAllow, lastOp, tmVars, exchanges>>]_vars

\* A second call served with what the first call stored: one Allow() and
\* one request in all.
C7_Witness ==
    /\ cacheEnabled
    /\ pc[1] = "done" /\ calls[1] = 2 /\ result[1] = Nil
    /\ value[1] = [by |-> 1, n |-> 1]
    /\ nSent[1] = 0 /\ nAllow = 1 /\ exchanges = 1

(***************************************************************************)
(* HTTP 429 in the retry loop (Spec)                                       *)
(***************************************************************************)
\* C11 as stated: a call whose last data request was answered 429 and that
\* ended with an error (the 429 itself, or the refusal of the limiter in the
\* attempt after it) has spent the whole attempt budget of maxRetries + 1
\* data requests; the limits are large enough that counting alone never
\* exhausts a window.
C11_Original ==
    \A c \in Callers :
        (/\ pc[c] = "done" /\ result[c] # Nil
         /\ minuteLimit = DefaultMinuteLimit /\ dayLimit = DefaultDayLimit
         /\ lastData[c] = "429"
         /\ lastEvent[c] \in {"429", "allowfail"}) =>
            nSentLoop[c] = maxRetries + 1

(***************************************************************************)
(* Terminal status codes (Spec)                                            *)
(***************************************************************************)
\* The statuses that are neither success nor handled by a path of their own
\* nor retried.
TerminalStatus(code) ==
    (code < 200 \/ code >= 300) /\ code \notin {401, 429, 500, 502, 503, 504}

\* C12: a data response with a non-2xx status other than 401, 429, 500,
\* 502, 503, 504 makes doOnce return the APIError of that status as not
\* retryable and doWithRetry return it in every attempt and whatever
\* maxRetries is; a call answered so at its only data request has sent one
\* request, slept no backoff and returns that APIError.
C12_TerminalStatus ==
    /\ \A r \in dataResponses :
          (r.t = "http" /\ TerminalStatus(r.code)) =>
              /\ DoOnceResponse(r) = Outcome(r.code, FALSE, APIError(r.code))
              /\ \A att \in 0..MaxRetriesBound : \A is401 \in BOOLEAN :
                    LoopDecision(DoOnceResponse(r), att, is401) = "return_err"
    /\ \A c \in Callers :
          /\ lastEvent[c] = "other" => pc[c] = "done"
          /\ (pc[c] = "done" /\ pure[c] = "other") =>
                /\ nSentLoop[c] = 1
                /\ result[c].kind = "APIError" /\ TerminalStatus(result[c].status)
                /\ ~retry401[c] => (nSent[c] = 1 /\ sleeps[c] = <<>>)

\* With two retries configured, a call answered 403 returned after its
\* first request.
C12_Witness ==
    /\ maxRetries = 2
    /\ pc[1] = "done" /\ result[1] = APIError(403) /\ ErrorsIs(result[1], "ErrForbidden")
    /\ nSent[1] = 1 /\ sleeps[1] = <<>> /\ ~retry401[1]

(***************************************************************************)
(* Cancellation (SpecCancel, SpecLockWait)                                 *)
(***************************************************************************)
\* C13: a backoff sleep that ends while the context of the call is done
\* (cancelled or past its deadline, before or during the sleep) ends the
\* call at once with the error of the context: the step calls no Allow(),
\* fetches no token and sends no request, and the call stays finished.
C13_SleepCancel ==
    /\ [](\A c \in Callers :
            lastEvent[c] = "sleepcancel" =>
                /\ pc[c] = "done"
                /\ cancelled[c] # "no"
                /\ result[c] = CtxError(cancelled[c]))
    /\ [][\A c \in Callers :
            (pc[c] = "sleep" /\ cancelled[c] # "no" /\ pc'[c] # "sleep") =>
                /\ pc'[c] = "done"
                /\ result'[c] = CtxError(cancelled[c])
                /\ nAllow' = nAllow
                /\ exchanges' = exchanges
                /\ nSent' = nSent
                /\ UNCHANGED <<limVars, tmVars>>]_vars

\* A call that was answered 503, slept, was answered 503 again and whose
\* deadline passed in the second backoff sleep, with an attempt left.
C13_Witness ==
    /\ maxRetries = 2
    /\ pc[1] = "done" /\ lastEvent[1] = "sleepcancel" /\ lastData[1] = "503"
    /\ result[1] = CtxError("deadline")
    /\ nSent[1] = 2 /\ sleeps[1] = <<0>> /\ nAllow = 2

\* C14 as stated: a caller whose context is done while it waits for the
\* lock of the token manager, held by another caller's exchange in flight,
\* can go on (and return) without the exchange finishing first.
C14_Original ==
    \A c \in Callers :
        (/\ pc[c] \in {"token", "lock"}
         /\ cancelled[c] # "no"
         /\ muHolder # 0 /\ muHolder # c) =>
            ENABLED (GetToken(c) \/ RefreshLock(c))

(***************************************************************************)
(* invalidate() (SpecToken)                                                *)
(***************************************************************************)
\* C20: invalidate() leaves the cached token empty and the expiry cleared,
\* so that no valid token is cached; every token a caller obtains from
\* getToken afterwards comes from an exchange issued after that invalidate(),
\* its own or another caller's, never a token cached before it.
C20_InvalidateForcesRefresh ==
    [][\A c \in Callers :
        /\ (pc[c] = "inval" /\ pc'[c] # "inval") =>
                /\ accessToken' = NoToken
                /\ tokenExpiry' = ZeroTime
                /\ ~TokenValid'
                /\ lastInvalidated' = exchanges
        /\ (pc[c] \in {"token", "lock", "exchange"} /\ pc'[c] = "send") =>
                /\ tok'[c] > lastInvalidated
                /\ tokenVia'[c] \in {"recheck", "cached"} => tok'[c] = accessToken]_vars

\* A caller that restarted after a 401 and has its request out with the
\* token of another caller's exchange, issued after the invalidate().
C20_Witness ==
    \E c \in Callers :
        /\ retry401[c] /\ pc[c] = "send"
        /\ lastInvalidated = 1
        /\ tok[c] = 2 /\ tokenVia[c] = "recheck"

(***************************************************************************)
(* ProductDetailsNoCache (SpecCache)                                       *)
(***************************************************************************)
\* C21: ProductDetailsNoCache never looks into the cache: with maxRetries >= 0,
\* whatever the cache holds under the product's key, the call leaves the
\* cache as it is and goes to Allow() of its first attempt, and its
\* request is sent once the limiter and the token manager let it pass.  When
\* it succeeds, the entry of the key is replaced by the fresh result with
\* the details TTL, and a ProductDetails call that starts while that entry
\* is unexpired returns it without a request.
C21_NoCacheBypass ==
    /\ [](\A c \in Callers :
            (kind[c] = "nocache" /\ pc[c] = "done" /\ result[c] = Nil /\ maxRetries >= 0) =>
                nSent[c] >= 1)
    /\ [][\A c \in Callers :
            /\ (calls'[c] # calls[c] /\ kind'[c] = "nocache" /\ maxRetries >= 0) =>
                    (cache' = cache /\ pc'[c] = "allow" /\ nSent'[c] = 0)
            /\ (Answered(c) /\ kind[c] = "nocache" /\ result'[c] = Nil /\ pc'[c] \in {"store", "done"}) =>
                    /\ pc'[c] = "store"
                    /\ value'[c] = [by |-> c, n |-> calls[c]]
                    /\ cache' = cache
            /\ (pc[c] = "store" /\ pc'[c] = "done" /\ kind[c] = "nocache" /\ maxRetries >= 0) =>
                    /\ result'[c] = Nil
                    /\ value'[c] = [by |-> c, n |-> calls[c]]
                    /\ cache'["details"] = Entry(value'[c], TRUE, now + DetailsTTL)
                    /\ cache'["search"] = cache["search"]
            /\ (/\ calls'[c] # calls[c] /\ kind'[c] = "details"
                /\ cache["details"].present /\ cache["details"].good
                /\ now < cache["details"].expiresAt) =>
                    /\ pc'[c] = "done"
                    /\ value'[c] = cache["details"].val
                    /\ nSent'[c] = 0]_vars

\* A ProductDetailsNoCache call that started on an unexpired entry, sent its
\* request and replaced the entry by the result it got.
C21_Witness ==
    /\ cacheEnabled
    /\ kind[1] = "nocache" /\ hadEntry[1]
    /\ pc[1] = "done" /\ result[1] = Nil /\ nSent[1] = 1
    /\ value[1] = [by |-> 1, n |-> calls[1]]
    /\ cache["details"] = Entry(value[1], TRUE, now + DetailsTTL)

(***************************************************************************)
(* Cache expiry (SpecMemCache)                                             *)
(***************************************************************************)
\* C22: Get(key) returns the value of the latest Set of the key (that no
\* Delete or Clear followed) as long as now is before the expiresAt of that
\* Set, and a miss once expiresAt <= now, whether or not the sweep ran in
\* between; the Get that finds the entry expired removes it, and no entry
\* in the cache differs from the latest Set of its key.
C22_CacheExpiry ==
    /\ \A k \in Keys : cache[k].present => cache[k] = lastSet[k]
    /\ (lastGet.key # "" /\ lastGet.at = now) =>
          LET e == lastSet[lastGet.key] IN
          /\ (e.present /\ now < e.expiresAt) => (lastGet.ok /\ lastGet.val = e.val)
          /\ (e.present /\ e.expiresAt <= now) =>
                (~lastGet.ok /\ lastGet.val = NoValue /\ ~cache[lastGet.key].present)
          /\ ~e.present => ~lastGet.ok

\* A Get at the very instant an entry set one second earlier expires: a
\* miss, and the entry is gone, with no sweep needed.
C22_Witness ==
    /\ lastGet.key = "details" /\ lastGet.at = now /\ now = 1
    /\ lastSet["details"].present /\ lastSet["details"].expiresAt = 1
    /\ ~lastGet.ok /\ ~cache["details"].present
    /\ cache["search"].present /\ now < cache["search"].expiresAt

(***************************************************************************)
(* 2xx responses: empty and malformed bodies (Spec)                        *)
(***************************************************************************)
\* C23 as stated: a call whose data request was answered with status 2xx
\* and an empty body returns an error to its caller.
C23_Original ==
    \A c \in Callers :
        (pc[c] = "done" /\ lastEvent[c] = "empty") => result[c] # Nil

\* C24: a 2xx response whose body does not parse ends the call in the step
\* that handles it, with the parse error, in every attempt and whatever
\* maxRetries is: no backoff sleep follows, no further request is sent, and
\* a call so answered at its first request has sent exactly one.
C24_ParseFailureTerminal ==
    /\ [](\A c \in Callers :
            /\ lastEvent[c] = "malformed" =>
                    (pc[c] = "done" /\ result[c] = OtherError("failed to parse response"))
            /\ (pc[c] = "done" /\ pure[c] = "malformed" /\ ~retry401[c]) =>
                    (nSent[c] = 1 /\ sleeps[c] = <<>>))
    /\ [][\A c \in Callers :
            (Answered(c) /\ lastEvent'[c] = "malformed") =>
                /\ pc'[c] = "done"
                /\ result'[c] = OtherError("failed to parse response")
                /\ sleeps'[c] = sleeps[c]
                /\ nSent'[c] = nSent[c]
                /\ attempt'[c] = attempt[c]
                /\ cache' = cache]_vars

\* With two retries configured, a call whose first request was answered 200
\* with a body that does not parse has returned the parse error.
C24_Witness ==
    /\ maxRetries = 2
    /\ pc[1] = "done" /\ lastEvent[1] = "malformed" /\ pure[1] = "malformed"
    /\ result[1] = OtherError("failed to parse response")
    /\ nSent[1] = 1 /\ sleeps[1] = <<>> /\ attempt[1] = 0

(***************************************************************************)
(* shouldRetry (SpecRetryPolicy)                                           *)
(***************************************************************************)
\* The statuses shouldRetry retries.
RetryableStatuses == {429, 500, 502, 503, 504}

\* C25: for the arguments doOnce passes, shouldRetry(err, status) is true
\* exactly when status is 429, 500, 502, 503 or 504 or err signals a timeout
\* or a temporary condition: false for every other 4xx status, 401 among
\* them, for a nil error with status 0 and for a refused connection or a
\* cancelled context.
C25_ShouldRetry ==
    fnResult.done =>
        /\ fnResult.val <=>
              (fnArgs.status \in RetryableStatuses
                  \/ fnArgs.err \in {"timeout", "temporary", "deadline"})
        /\ (fnArgs.status \in 400..499 /\ fnArgs.status # 429) => ~fnResult.val
        /\ fnArgs.status = 401 => ~fnResult.val
        /\ (fnArgs.err = "nil" /\ fnArgs.status = 0) => ~fnResult.val
        /\ fnArgs.err \in {"refused", "canceled"} => ~fnResult.val

\* shouldRetry(nil, 504) returned true.
C25_Witness ==
    /\ fnResult.done /\ fnResult.val
    /\ fnArgs.fn = "shouldRetry" /\ fnArgs.err = "nil" /\ fnArgs.status = 504

(***************************************************************************)
(* Lazy window reset and the order of the checks in Allow() (SpecLimiter)  *)
(***************************************************************************)
\* The step is a call of Allow() (before the count of calls saturates).
AllowStep == lastOp'.op = "Allow" /\ nAllow' = nAllow + 1

\* C26 as stated: an Allow() made at any time now >= resetAt of a window,
\* now = resetAt included, resets that window to count 0 and
\* resetAt = now + window duration before the limit check (so the window
\* holds just the request admitted, if any), each window on its own; an
\* exhausted minute window therefore admits again from now = resetAt on.
C26_Original ==
    [][AllowStep =>
        /\ now >= minuteResetTime =>
              /\ minuteResetTime' = now + MinuteDur
              /\ minuteCount' = (IF lastOp'.err = Nil THEN 1 ELSE 0)
              /\ (minuteLimit >= 1 /\ dayCount < dayLimit) => lastOp'.err = Nil
        /\ now < minuteResetTime => minuteResetTime' = minuteResetTime
        /\ now >= dayResetTime =>
              /\ dayResetTime' = now + DayDur
              /\ dayCount' = (IF lastOp'.err = Nil THEN 1 ELSE 0)
        /\ now < dayResetTime => dayResetTime' = dayResetTime]_vars

\* C27: Allow() checks the minute window before the day window: an Allow()
\* that fails with the error tagged "day" leaves a minute window with
\* headroom and an exhausted day window, and carries the day limit and the
\* day reset time; an Allow() that fails with both windows exhausted returns
\* the error tagged "minute" with the minute limit and the minute reset time.
C27_MinuteBeforeDay ==
    [][AllowStep =>
        /\ lastOp'.err.window = "day" =>
              /\ minuteCount' < minuteLimit
              /\ dayCount' >= dayLimit
              /\ lastOp'.err = RateLimitError(dayLimit, 0, dayResetTime', "day")
        /\ (lastOp'.err # Nil /\ minuteCount' >= minuteLimit) =>
              lastOp'.err = RateLimitError(minuteLimit, 0, minuteResetTime', "minute")
        /\ lastOp'.err # Nil => lastOp'.err.window \in {"minute", "day"}]_vars

\* An Allow() refused with both windows exhausted: the error names the
\* minute window.
C27_Witness ==
    /\ lastOp.op = "Allow" /\ lastOp.at = now
    /\ minuteCount >= minuteLimit /\ dayCount >= dayLimit
    /\ now <= minuteResetTime /\ now <= dayResetTime
    /\ lastOp.err = RateLimitError(minuteLimit, 0, minuteResetTime, "minute")

(***************************************************************************)
(* The token handed to a request, and 401 answers (SpecToken)              *)
(***************************************************************************)
\* Caller c obtains its token from getToken in this step.
TokenReturned(c) == pc[c] \in {"token", "lock", "exchange"} /\ pc'[c] = "send"

\* C28 as stated: every token getToken returns is non-empty and outside the
\* expiry buffer (now < expiresAt - 60s) at the moment it is returned,
\* whatever expires_in the token response carried; and the cached token is
\* returned without an exchange exactly when it is non-empty and outside
\* the buffer.
C28_Original ==
    [][\A c \in Callers :
        /\ TokenReturned(c) =>
              (tok'[c] # NoToken /\ tok'[c] = accessToken' /\ now < tokenExpiry' - TokenExpiryBuffer)
        /\ (pc[c] = "token" /\ pc'[c] # "token") =>
              ((pc'[c] = "send" /\ exchanges' = exchanges) <=> TokenValid)]_vars

\* C29 as stated: once a 401 answer to a data request has been processed,
\* the cached token is unset, also when the 401 answers the request of the
\* restarted call: a call that returns the 401 leaves no token cached.
C29_Original ==
    \A c \in Callers :
        (pc[c] = "done" /\ lastEvent[c] = "401" /\ result[c] = APIError(401)) =>
            accessToken = NoToken

\* C30: the requests of the restarted call carry a token of an exchange
\* issued, and so completed, after this call's invalidate().  The token
\* that was rejected is one of those issued before the invalidate(); the
\* invalidate() runs while no exchange is in flight and marks every token
\* issued so far as discarded, and the mark never moves back; every token
\* the restarted call obtains from getToken, from its own exchange, at the
\* re-check or from the cache, was issued after the mark, whatever the
\* other callers' getToken, refreshToken and invalidate() do in between.
C30_FreshCredential ==
    [][/\ lastInvalidated' >= lastInvalidated
       /\ \A c \in Callers :
            /\ (Answered(c) /\ pc'[c] = "inval") =>
                    (tok[c] # NoToken /\ tok[c] <= exchanges)
            /\ (pc[c] = "inval" /\ pc'[c] # "inval") =>
                    (lastInvalidated' = exchanges /\ retry401'[c] /\ muHolder = 0)
            /\ (TokenReturned(c) /\ retry401[c]) =>
                    /\ tok'[c] # NoToken
                    /\ tok'[c] > lastInvalidated
                    /\ tok'[c] <= exchanges']_vars

\* The restarted call of a caller, the only one that invalidated, has its
\* request out with the token of its own exchange, the third issued: the
\* token it was rejected with was the first, and the second, fetched by
\* another caller in between, was the one cached when this caller
\* invalidated.
C30_Witness ==
    \E c \in Callers :
        /\ retry401[c] /\ pc[c] = "send"
        /\ \A d \in Callers \ {c} : ~retry401[d] /\ pc[d] # "inval"
        /\ lastInvalidated = 2 /\ tok[c] = 3 /\ tokenVia[c] = "exchange"

(***************************************************************************)
(* Failed token exchanges (SpecTokenFail)                                  *)
(***************************************************************************)
\* C31: a token exchange that fails (transport error, non-200 status, body
\* that does not parse) makes refreshToken return an error and leaves the
\* cached token and its expiry as they were.  A non-200 answer with a
\* structured error body gives an AuthError, which matches ErrUnauthorized
\* and ends the call; any other non-200 answer gives an APIError; doOnce
\* reports both with status 0, so neither takes the 401 path: the step
\* calls no invalidate() and the call does not restart.
C31_ExchangeFailure ==
    /\ [](\A r \in tokenResponses :
            /\ r.t # "ok" => DoOnceTokenFail(r).err # Nil /\ DoOnceTokenFail(r).status = 0
            /\ r.t = "autherr" =>
                  /\ DoOnceTokenFail(r).err = AuthError
                  /\ ErrorsIs(DoOnceTokenFail(r).err, "ErrUnauthorized")
            /\ r.t \in {"apierr", "apierr401"} => DoOnceTokenFail(r).err.kind = "APIError"
            /\ r.t \in {"autherr", "apierr", "apierr401"} =>
                  \A att \in 0..MaxRetriesBound : \A is401 \in BOOLEAN :
                      LoopDecision(DoOnceTokenFail(r), att, is401) = "return_err")
    /\ [][\A c \in Callers :
            (pc[c] = "exchange" /\ pc'[c] \notin {"exchange", "send"}) =>
                /\ UNCHANGED <<accessToken, tokenExpiry>>
                /\ lastEvent'[c] = "tokenfail"
                /\ pc'[c] \in {"done", "sleep"}
                /\ pc'[c] = "done" => result'[c] # Nil
                /\ pc'[c] = "sleep" => maxRetries > 0
                /\ retry401'[c] = retry401[c]
                /\ nSent'[c] = nSent[c]]_vars

\* The second call of a caller found its token expired, and the exchange
\* was answered with a structured error: the call returned the AuthError
\* with a retry left, and the expired token and its expiry are still there.
C31_Witness ==
    /\ pc[1] = "done" /\ calls[1] = 2 /\ lastEvent[1] = "tokenfail"
    /\ result[1] = AuthError /\ maxRetries = 1 /\ attempt[1] = 0 /\ ~retry401[1]
    /\ accessToken = 1 /\ tokenExpiry = 3600 /\ now = 3600
    /\ exchanges = 2 /\ nSent[1] = 0

(***************************************************************************)
(* Who writes the cache (SpecCacheWrite)                                   *)
(***************************************************************************)
\* Caller c returns from its call in this step.
Returns(c) == (pc[c] # "done" \/ calls'[c] # calls[c]) /\ pc'[c] = "done"
\* The call that returns in this step was served from the cache.
ServedFromCache(c) == calls'[c] # calls[c] /\ hadEntry'[c] /\ kind'[c] # "nocache"
\* The entry under key k changes in this step otherwise than by the removal
\* of an entry that has expired.
Written(k) ==
    /\ cache'[k] # cache[k]
    /\ ~(cache'[k] = NoEntry /\ cache[k].present /\ ~(now < cache[k].expiresAt))

\* C32: the cache is written only by calls that succeed.  The step in which
\* a call returns an error (limiter, token, transport, status, parse,
\* cancellation) leaves the cache as it is, and no other step before it
\* writes: the only change a call makes before it returns is the lookup's
\* removal of an entry that has expired.  A call that returns nil after
\* do(), with caching enabled, has stored its result under its own key
\* with the TTL of its kind (SearchTTL for searches, DetailsTTL for
\* details) in the step in which it returns.
C32_CacheWrittenOnSuccess ==
    [][/\ \A k \in Keys : Written(k) =>
              \E c \in Callers : Returns(c) /\ result'[c] = Nil /\ ~ServedFromCache(c)
                                   /\ k = KeyOf(kind'[c])
       /\ \A c \in Callers :
            /\ (Returns(c) /\ result'[c] # Nil) => cache' = cache
            /\ (Returns(c) /\ result'[c] = Nil /\ ~ServedFromCache(c) /\ cacheEnabled) =>
                  /\ cache'[KeyOf(kind'[c])] =
                        Entry(value'[c], TRUE,
                              now + (IF kind'[c] = "search" THEN SearchTTL ELSE DetailsTTL))
                  /\ \A k \in Keys \ {KeyOf(kind'[c])} : ~Written(k)]_vars

\* A search fetched its result and stored it for SearchTTL over a preloaded
\* entry, next to a preloaded details entry; the caller's next call, a
\* details lookup that found the entry unreadable, was refused by the
\* limiter and left both entries as they were.
C32_Witness ==
    /\ cacheEnabled /\ pc[1] = "done" /\ calls[1] = 2 /\ kind[1] = "details"
    /\ result[1].kind = "RateLimitError" /\ lastEvent[1] = "allowfail"
    /\ cache["search"] = Entry([by |-> 1, n |-> 1], TRUE, now + SearchTTL)
    /\ cache["details"] = Entry(Preloaded, FALSE, SearchTTL)
    /\ now < SearchTTL

(***************************************************************************)
(* The counts of the limiter (SpecLimiter)                                 *)
(***************************************************************************)
\* C34: with positive limits, 0 <= minuteCount <= minuteLimit and
\* 0 <= dayCount <= dayLimit in every reachable state, whatever the order
\* of Allow, Stats, WaitTime and UpdateFromResponse calls (each runs under
\* the limiter's mutex), so that Stats() never reports, and would never
\* report, a negative remaining value.
C34_CountsWithinLimits ==
    /\ minuteLimit > 0 /\ dayLimit > 0
    /\ 0 <= minuteCount /\ minuteCount <= minuteLimit
    /\ 0 <= dayCount /\ dayCount <= dayLimit
    /\ StatsResult.MinuteRemaining >= 0 /\ StatsResult.DayRemaining >= 0
    /\ lastOp.op = "Stats" =>
          /\ lastOp.stats.MinuteRemaining >= 0 /\ lastOp.stats.DayRemaining >= 0
          /\ lastOp.stats.MinuteUsed >= 0 /\ lastOp.stats.DayUsed >= 0

\* Stats() was called on a limiter whose day window is full of admitted
\* requests and whose minute window a 429 with Retry-After has filled up
\* past what was admitted: it reported 0 remaining in both.
C34_Witness ==
    /\ lastOp.op = "Stats"
    /\ lastOp.stats.MinuteRemaining = 0 /\ lastOp.stats.DayRemaining = 0
    /\ minuteCount = minuteLimit /\ dayCount = dayLimit
    /\ maxDeadline > 0 /\ admMinute < minuteLimit /\ admDay = dayLimit

\* C35: Allow() updates the two counts as a pair.  An Allow() that admits
\* adds exactly one to each count (counted from 0 in a window whose reset
\* time has passed); an Allow() that rejects adds to neither: both counts
\* are what the lazy reset leaves, so a day rejection takes no minute slot
\* and a minute rejection no day slot.
C35_CountsMoveTogether ==
    [][AllowStep =>
        /\ lastOp'.err = Nil =>
              /\ minuteCount' = (IF WindowPassed(minuteResetTime) THEN 0 ELSE minuteCount) + 1
              /\ dayCount' = (IF WindowPassed(dayResetTime) THEN 0 ELSE dayCount) + 1
        /\ lastOp'.err # Nil =>
              /\ minuteCount' = (IF WindowPassed(minuteResetTime) THEN 0 ELSE minuteCount)
              /\ dayCount' = (IF WindowPassed(dayResetTime) THEN 0 ELSE dayCount)
        /\ \/ (minuteCount' - minuteCount = 1) <=> (dayCount' - dayCount = 1)
           \/ WindowPassed(minuteResetTime)
           \/ WindowPassed(dayResetTime)]_vars

\* The day window rejected a request while the minute window had room:
\* the minute count kept the one request admitted before.
C35_Witness ==
    /\ lastOp.op = "Allow" /\ lastOp.err.kind = "RateLimitError" /\ lastOp.err.window = "day"
    /\ minuteLimit = 2 /\ dayLimit = 1
    /\ minuteCount = 1 /\ dayCount = 1 /\ nAllow = 2 /\ pristine

(***************************************************************************)
(* What a 401 invalidates (SpecToken)                                      *)
(***************************************************************************)
\* The step is the invalidate() of caller c after its first 401; tok[c] is
\* the token its rejected request carried.
InvalidateStep(c) == pc[c] = "inval" /\ pc'[c] = "allow"

\* C37 as stated: the invalidation after a 401 discards only the credential
\* that was rejected: when another caller has installed a newer token
\* since this call read the token it sent, the newer token stays cached,
\* so that concurrent calls rejected with the same stale token cause one
\* new exchange between them.
C37_Original ==
    [][\A c \in Callers :
          (InvalidateStep(c) /\ accessToken # NoToken /\ accessToken # tok[c]) =>
              /\ accessToken' = accessToken
              /\ tokenExpiry' = tokenExpiry]_vars

(***************************************************************************)
(* What a nil error stands for, and how many requests a call sends (Spec)  *)
(***************************************************************************)
\* C38 as stated: a call returns nil only if, during the call, a data
\* request was sent and answered with a 2xx response whose body was
\* accepted, for every MaxRetries the client can be built with, so that no
\* unfetched zero value is returned as a result.
C38_Original ==
    \A c \in callers :
        (pc[c] = "done" /\ calls[c] > 0 /\ result[c] = Nil) =>
            /\ nSent[c] >= 1
            /\ lastData[c] \in {"200", "empty"}

\* C39 as stated: one call sends at most maxRetries + 2 data requests and
\* takes at most maxRetries + 2 limiter slots, whatever the server answers.
C39_Original ==
    \A c \in callers : nSent[c] <= maxRetries + 2 /\ admDay <= maxRetries + 2

\* C39, amended: the call restarted after the first 401 runs a whole new
\* loop of maxRetries + 1 attempts, whatever number of attempts the first
\* loop had used.  One call therefore sends at most maxRetries + 1
\* requests before its restart and at most 2 * (maxRetries + 1) in all
\* (none when MaxRetries is negative), each of them behind a limiter slot
\* of its own; maxRetries + 2 is the bound only for a call whose first
\* attempt is the one answered 401.
C39_RequestBound ==
    \A c \in callers :
        LET loops == IF retry401[c] THEN 2 ELSE 1
            budget == IF MaxAttempts > 0 THEN MaxAttempts ELSE 0
        IN /\ nSent[c] <= loops * budget
           /\ admDay <= loops * budget
           /\ nSent[c] <= admDay
           /\ nSentLoop[c] <= budget

\* A call with the largest retry budget was answered with retryable errors
\* until the 401 on its last attempt, and again on every attempt of the
\* restarted call: twice the budget in requests and in limiter slots.
C39_Witness ==
    /\ pc[1] = "done" /\ result[1] # Nil /\ retry401[1]
    /\ maxRetries = MaxRetriesBound
    /\ nSent[1] = 2 * (maxRetries + 1) /\ admDay = 2 * (maxRetries + 1)

(***************************************************************************)
(* Locks and network calls (SpecLocks)                                     *)
(***************************************************************************)
\* C33: no lock is held across a network call except the lock of the
\* credential refresh.  A caller whose data request is in flight or whose
\* backoff sleep is in progress holds no lock at all (limiter, cache,
\* locale, credential), and a caller whose token exchange is in flight
\* holds the token manager's lock exclusively and nothing else; locks are
\* held only inside the sections that take them.
C33_NoLockAcrossNetwork ==
    \A c \in Callers :
        /\ pc[c] \in {"send", "sleep"} => held[c] = {}
        /\ pc[c] = "exchange" => held[c] = {LockOf("token", "w")}
        /\ held[c] # {} =>
              pc[c] \in {"exchange", "recheck"} \cup {s.to : s \in AcquireSites}
        /\ pc[c] \in {"idle", "done"} => held[c] = {}

\* Caller 1, restarted after a 401, has its token exchange in flight and
\* holds the token manager's lock; caller 2, which read the token before
\* it was invalidated, has its data request in flight and holds nothing.
C33_Witness ==
    /\ pc[1] = "exchange" /\ retry401[1] /\ held[1] = {LockOf("token", "w")}
    /\ pc[2] = "send" /\ held[2] = {}

(***************************************************************************)
(* The locale of a call (SpecLocks)                                        *)
(***************************************************************************)
\* C36 as stated: under concurrent SetLocale calls every cache entry under
\* the key of locale L holds a response requested with the headers of L:
\* the locale of the lookup key, the locale in the request headers and the
\* locale of the store key of one call are the same.
C36_Original ==
    /\ \A l \in Locales : lcache[l] \notin {NoLocale, ZeroResponse} => lcache[l] = l
    /\ \A c \in Callers :
          /\ (keyLoc[c] # NoLocale /\ hdrLoc[c] # NoLocale) => keyLoc[c] = hdrLoc[c]
          /\ (hdrLoc[c] # NoLocale /\ storeLoc[c] # NoLocale) => hdrLoc[c] = storeLoc[c]

(***************************************************************************)
(* Termination (SpecLocksFair)                                             *)
(***************************************************************************)
\* Caller c is inside a top-level call.
InCall(c) == pc[c] \notin {"idle", "done"}

\* C40: every top-level call terminates.  With network exchanges that end
\* and fair scheduling, each of the concurrent calls eventually returns a
\* result or an error; doWithRetry never calls itself from a call of
\* itself that is already the restart (depth at most 1); no goroutine
\* takes a lock while it holds another one; and no reachable state is a
\* deadlock: while a call is under way or SetLocale holds its lock, some
\* goroutine can take a step.
C40_Termination ==
    /\ \A c \in Callers : InCall(c) ~> (pc[c] = "done")
    /\ [](\A c \in Callers : depth[c] <= 1 /\ (depth[c] = 1 <=> retry401[c]))
    /\ [](\A p \in Procs : Cardinality(held[p]) <= 1)
    /\ []((setterPc = "locked" \/ \E c \in Callers : InCall(c)) =>
             ENABLED (LkSetLocale \/ \E c \in Callers : LkProgress(c) \/ LkAcquire(c)))

\* Both calls and the SetLocale have returned: caller 1 with the error of
\* its restarted call, after a retry in it, caller 2 with a result.
C40_Witness ==
    /\ pc[1] = "done" /\ pc[2] = "done" /\ setterPc = "done"
    /\ calls[1] = 1 /\ calls[2] = 1
    /\ depth[1] = 1 /\ attempt[1] = 1 /\ result[1] # Nil
    /\ result[2] = Nil /\ lcache[locale] # NoLocale
    /\ \A p \in Procs : held[p] = {}

====
